---- MODULE Spec2Model ----
(***************************************************************************)
(* Model of the instrument-control wrappers of python-instrument-control.  *)
(*                                                                         *)
(* One behaviour follows one instrument binding (one constructed object of *)
(* a concrete model class) and the instrument behind it.  Every method is  *)
(* an operator from (object, arguments, instrument replies) to an outcome  *)
(* [wire, res, self]: the transport calls it issued in order, what the     *)
(* caller got back, and the object's fields afterwards.  The action of a   *)
(* method draws the arguments, lets the instrument answer the queries and  *)
(* apply the writes, and records the outcome of that call.                 *)
(*                                                                         *)
(* Numbers: Python floats are modelled as integers in a fixed unit per     *)
(* quantity, 1/1000 of the source's unit for nm, nm/s, s, mW, dBm, V, A    *)
(* and dB (1480 nm is 1480000) and picometres for wavelengths the source   *)
(* gives in metres (1200e-9 m is 1200000).  Text is a sequence of          *)
(* one-character strings, so that lower() and rstrip() are computed.       *)
(* got keeps the replies a call's result is derived from, printed the      *)
(* messages the call printed.  An identification reply is the pair of its  *)
(* first two comma-separated fields; the object's copy of it (self.idn,    *)
(* self.module_id) is read by no method and is left out of self.           *)
(* link is the transport: link.flaky tells whether its calls may raise,    *)
(* link.failed the position in wire of the call that raised during the    *)
(* last method (0 when none did).                                          *)
(***************************************************************************)
EXTENDS Integers, Sequences, FiniteSets, TLC

VARIABLES cls, self, dev, op, arg, wire, res, prev, got, printed, callers, lock,
          link

vars ==
  <<cls, self, dev, op, arg, wire, res, prev, got, printed, callers, lock, link>>

(***************************************************************************)
(* Bounds of the model.                                                    *)
(***************************************************************************)
\* numeric arguments are drawn from Margin steps either side of each bound
Margin == 1
\* numeric telemetry replies of the instrument are drawn from 0..MaxReply
MaxReply == 1
\* enumerated codes the instrument may be found in: 0..MaxCode, which is one
\* more than the largest code of the largest table (0..3)
MaxCode == 4
\* power-unit codes the instrument may be found in: 0..MaxUnitCode, one more
\* than the codes of the power-unit tables (0, 1)
MaxUnitCode == 2

(***************************************************************************)
(* Text.                                                                   *)
(***************************************************************************)
UpperAlpha ==
  <<"A","B","C","D","E","F","G","H","I","J","K","L","M",
    "N","O","P","Q","R","S","T","U","V","W","X","Y","Z">>

LowerAlpha ==
  <<"a","b","c","d","e","f","g","h","i","j","k","l","m",
    "n","o","p","q","r","s","t","u","v","w","x","y","z">>

\* the character c.lower()
LowerChar(c) ==
  IF \E i \in 1..26 : UpperAlpha[i] = c
  THEN LowerAlpha[CHOOSE i \in 1..26 : UpperAlpha[i] = c]
  ELSE c

\* the character c.upper()
UpperChar(c) ==
  IF \E i \in 1..26 : LowerAlpha[i] = c
  THEN UpperAlpha[CHOOSE i \in 1..26 : LowerAlpha[i] = c]
  ELSE c

\* str.lower()
lower(s) == [i \in 1..Len(s) |-> LowerChar(s[i])]

\* str.upper()
upper(s) == [i \in 1..Len(s) |-> UpperChar(s[i])]

\* str.rstrip(chars): drop every trailing character that is in chars
RECURSIVE rstrip(_, _)
rstrip(s, chars) ==
  IF Len(s) > 0 /\ s[Len(s)] \in chars
  THEN rstrip(SubSeq(s, 1, Len(s) - 1), chars)
  ELSE s

\* the characters str.rstrip() drops when it is given no argument
Whitespace == {" ", "\t", "\n", "\r"}

\* every upper/lower-case spelling of s
CaseVariants(s) ==
  { [i \in 1..Len(s) |-> IF i \in U THEN UpperChar(s[i]) ELSE LowerChar(s[i])] :
      U \in SUBSET (1..Len(s)) }

\* labels of the sources, as text
s_dBm == <<"d","B","m">>
s_mW == <<"m","W">>
s_W == <<"W">>
\* the memory-sweep source mode of the sourcemeter
s_MEM == <<"M","E","M">>
s_none == <<"n","o","n","e">>
s_stop == <<"s","t","o","p">>
s_start == <<"s","t","a","r","t">>
s_step == <<"s","t","e","p">>
s_volt == <<"v","o","l","t">>
s_curr == <<"c","u","r","r">>
s_VOLT == <<"V","O","L","T">>
s_CURR == <<"C","U","R","R">>
s_invalid == <<"i","n","v","a","l","i","d">>
s_NORM == <<"N","O","R","M">>
s_SWAP == <<"S","W","A","P">>
s_single == <<"s","i","n","g","l","e">>
s_repeat == <<"r","e","p","e","a","t">>
s_auto == <<"a","u","t","o">>
s_segment == <<"s","e","g","m","e","n","t">>
s_dis == <<"d","i","s">>
s_def == <<"d","e","f">>
s_pass == <<"p","a","s","s">>
s_loop == <<"l","o","o","p">>

(***************************************************************************)
(* Transport calls and outcomes.                                           *)
(***************************************************************************)
\* a transport call: the fixed part of the command string, the formatted
\* slot ({self.slot} of the f-string) and the formatted number, each as a
\* sequence of integers that is empty when the command has none, and the
\* formatted text
WriteSlot(head, slot, num, txt) ==
  [kind |-> "write", head |-> head, slot |-> slot, num |-> num, txt |-> txt,
   term |-> <<>>]

QuerySlot(head, slot) ==
  [kind |-> "query", head |-> head, slot |-> slot, num |-> <<>>, txt |-> <<>>,
   term |-> <<>>]

\* write(message, term): a write given a second positional argument, which
\* the transport takes for the termination of the message, not for a part
\* of it
WriteTerm(head, term) ==
  [kind |-> "write", head |-> head, slot |-> <<>>, num |-> <<>>, txt |-> <<>>,
   term |-> <<term>>]

Write(head, num, txt) == WriteSlot(head, <<>>, num, txt)

Query(head) == QuerySlot(head, <<>>)

\* what the caller gets: a normal return (of None, a number or a text) or an
\* exception
\* The message of an exception is kept by what it tells: the parameter it
\* names between angle brackets, the value it quotes as given, and the
\* bounds or labels it lists as accepted; each is empty when the text has none.
NoMsg == [param |-> "", given |-> <<>>, accepted |-> <<>>]
\* '... <param> must be between {lo} and {hi}.'
RangeMsg(param, lo, hi) == [param |-> param, given |-> <<>>, accepted |-> <<lo, hi>>]
\* '... <param> must be between {lo} and {hi}, given {v}.'
RangeMsgGiven(param, lo, hi, v) ==
  [param |-> param, given |-> <<v>>, accepted |-> <<lo, hi>>]
\* '... <param> must be ...' followed by the labels, if it lists any
EnumMsg(param, labels) == [param |-> param, given |-> <<>>, accepted |-> labels]

Ok == [status |-> "ok", num |-> <<>>, txt |-> <<>>, axis |-> <<>>, msg |-> NoMsg]
OkNum(n) == [status |-> "ok", num |-> <<n>>, txt |-> <<>>, axis |-> <<>>, msg |-> NoMsg]
OkTxt(t) == [status |-> "ok", num |-> <<>>, txt |-> t, axis |-> <<>>, msg |-> NoMsg]
\* an exception of class e with message m
Raise(e, m) == [status |-> e, num |-> <<>>, txt |-> <<>>, axis |-> <<>>, msg |-> m]
\* a normal return whose value is an exception object of class e
OkObj(e, m) == [status |-> "ok", num |-> <<>>, txt |-> <<e>>, axis |-> <<>>, msg |-> m]

Outcome(w, r, obj) == [wire |-> w, res |-> r, self |-> obj]

\* the outcome of a constructor, with the messages it printed
Built(w, r, obj, p) == [wire |-> w, res |-> r, self |-> obj, printed |-> p]

\* print(msg) when cond holds
PrintIf(cond, msg) == IF cond THEN <<msg>> ELSE <<>>

NoArg == [num |-> <<>>, txt |-> <<>>, unit |-> <<>>]
NumArg(n) == [num |-> <<n>>, txt |-> <<>>, unit |-> <<>>]
TxtArg(t) == [num |-> <<>>, txt |-> t, unit |-> <<>>]
PowArg(n, u) == [num |-> <<n>>, txt |-> <<>>, unit |-> u]

\* numeric arguments around a pair of bounds
Around(lo, hi) ==
  ((lo - Margin)..(lo + Margin)) \cup ((hi - Margin)..(hi + Margin))
    \cup {(lo + hi) \div 2}


(***************************************************************************)
(* Lasers/Santec.py: class TSL710.                                         *)
(***************************************************************************)
\* TSL710.__init__: the identification query, and the fields of the object
\* after construction
TSL710_init(idn) ==
  Built(<<Query("*IDN?")>>, Ok,
    [min_wl |-> 1480000, max_wl |-> 1640000,
     min_spd |-> 500, max_spd |-> 100000,
     min_del |-> 0, max_del |-> 999900,
     min_pow_mW |-> 100, max_pow_mW |-> 10000,
     min_pow_dBm |-> -20000, max_pow_dBm |-> 10000],
    PrintIf(idn[1] # "Santec" /\ idn[2] # "TSL-710",
            "Device not recognized as Santec TSL-710."))

TSL710_get_wavelength(obj, reply) ==
  Outcome(<<Query(":wav?")>>, OkNum(reply), obj)

\* set_wavelength with the upper bound excluded
TSL710_set_wavelength_excl(obj, lam) ==
  IF lam >= obj.min_wl /\ lam < obj.max_wl
  THEN Outcome(<<Write(":wav ", <<lam>>, <<>>)>>, Ok, obj)
  ELSE Outcome(<<>>, Raise("ValueError", RangeMsg("lam", obj.min_wl, obj.max_wl)), obj)

TSL710_set_wavelength(obj, lam) ==
  IF lam >= obj.min_wl /\ lam <= obj.max_wl
  THEN Outcome(<<Write(":wav ", <<lam>>, <<>>)>>, Ok, obj)
  ELSE Outcome(<<>>, Raise("ValueError", RangeMsg("lam", obj.min_wl, obj.max_wl)), obj)

TSL710_get_wav_sweep_start(obj, reply) ==
  Outcome(<<Query(":wav:swe:start?")>>, OkNum(reply), obj)

TSL710_set_wav_sweep_start(obj, lam) ==
  IF lam >= obj.min_wl /\ lam <= obj.max_wl
  THEN Outcome(<<Write(":wav:swe:start ", <<lam>>, <<>>)>>, Ok, obj)
  ELSE Outcome(<<>>, Raise("ValueError", RangeMsg("lam", obj.min_wl, obj.max_wl)), obj)

TSL710_get_wav_sweep_stop(obj, reply) ==
  Outcome(<<Query(":wav:swe:stop?")>>, OkNum(reply), obj)

TSL710_set_wav_sweep_stop(obj, lam) ==
  IF lam >= obj.min_wl /\ lam <= obj.max_wl
  THEN Outcome(<<Write(":wav:swe:stop ", <<lam>>, <<>>)>>, Ok, obj)
  ELSE Outcome(<<>>, Raise("ValueError", RangeMsg("lam", obj.min_wl, obj.max_wl)), obj)

TSL710_get_wave_sweep_speed(obj, reply) ==
  Outcome(<<Query(":wav:swe:spe?")>>, OkNum(reply), obj)

TSL710_set_wave_sweep_speed(obj, speed) ==
  IF speed >= obj.min_spd /\ speed <= obj.max_spd
  THEN Outcome(<<Write(":wav:swe:spe ", <<speed>>, <<>>)>>, Ok, obj)
  ELSE Outcome(<<>>, Raise("ValueError", RangeMsg("speed", obj.min_spd, obj.max_spd)), obj)

TSL710_get_wave_sweep_delay(obj, reply) ==
  Outcome(<<Query(":wav:swe:del?")>>, OkNum(reply), obj)

TSL710_set_wave_sweep_delay(obj, delay) ==
  IF delay >= obj.min_del /\ delay <= obj.max_del
  THEN Outcome(<<Write(":wav:swe:del ", <<delay>>, <<>>)>>, Ok, obj)
  ELSE Outcome(<<>>, Raise("ValueError", RangeMsg("delay", obj.min_del, obj.max_del)), obj)

TSL710_get_wave_sweep_cycles(obj, reply) ==
  Outcome(<<Query(":wav:swe:cycl?")>>, OkNum(reply), obj)

\* set_wave_sweep_cycles with int(cycles) tested in place of cycles
TSL710_set_wave_sweep_cycles_trunc(obj, cycles) ==
  IF 0 <= cycles /\ cycles \div 1000 <= 999
  THEN Outcome(<<Write(":wav:swe:cycl ", <<cycles>>, <<>>)>>, Ok, obj)
  ELSE Outcome(<<>>, Raise("ValueError", RangeMsg("cycles", 0, 999)), obj)

\* set_wave_sweep_cycles: cycles is in thousandths (5 is 5000, 5.5 is 5500);
\* 'cycles in range(0, 1000)' holds when cycles equals a member of the range
TSL710_set_wave_sweep_cycles(obj, cycles) ==
  IF \E i \in 0..999 : cycles = 1000 * i
  THEN Outcome(<<Write(":wav:swe:cycl ", <<cycles>>, <<>>)>>, Ok, obj)
  ELSE Outcome(<<>>, Raise("ValueError", RangeMsg("cycles", 0, 999)), obj)

TSL710_get_wave_sweep_mode(obj, reply) ==
  Outcome(<<Query(":wav:swe:mod?")>>, OkNum(reply), obj)

\* set_wave_sweep_mode testing 0 <= mode <= 4
TSL710_set_wave_sweep_mode_between(obj, mode) ==
  IF 0 <= mode /\ mode <= 4000
  THEN Outcome(<<Write(":wav:swe:mod ", <<mode>>, <<>>)>>, Ok, obj)
  ELSE Outcome(<<>>, Raise("ValueError", EnumMsg("mode", <<"0", "1", "2", "3">>)), obj)

\* set_wave_sweep_mode: mode is in thousandths, 'mode in range(0, 4)'
TSL710_set_wave_sweep_mode(obj, mode) ==
  IF \E i \in 0..3 : mode = 1000 * i
  THEN Outcome(<<Write(":wav:swe:mod ", <<mode>>, <<>>)>>, Ok, obj)
  ELSE Outcome(<<>>, Raise("ValueError", EnumMsg("mode", <<"0", "1", "2", "3">>)), obj)

\* get_power_unit(verbose=True): unit is the code the instrument replied
TSL710_get_power_unit(obj, unit) ==
  Outcome(<<Query(":pow:unit?")>>,
          IF unit = 0 THEN OkTxt(s_dBm) ELSE OkTxt(s_mW),
          obj)

TSL710_set_power_unit(obj, unit) ==
  IF unit = s_dBm THEN Outcome(<<Write(":pow:unit ", <<0>>, <<>>)>>, Ok, obj)
  ELSE IF unit = s_mW THEN Outcome(<<Write(":pow:unit ", <<1>>, <<>>)>>, Ok, obj)
  ELSE Outcome(<<>>, Raise("ValueError", EnumMsg("unit", <<"mW", "dBm">>)), obj)

\* get_power with the ':pow?' query ahead of set_power_unit(unit)
TSL710_get_power_queryfirst(obj, unit, reply) ==
  LET u == TSL710_set_power_unit(obj, unit) IN
  IF u.res.status # "ok" THEN Outcome(<<Query(":pow?")>>, u.res, u.self)
  ELSE Outcome(<<Query(":pow?")>> \o u.wire, OkNum(reply), u.self)

\* get_power(unit): set_power_unit(unit), then the ':pow?' query
TSL710_get_power(obj, unit, reply) ==
  LET u == TSL710_set_power_unit(obj, unit) IN
  IF u.res.status # "ok" THEN u
  ELSE Outcome(u.wire \o <<Query(":pow?")>>, OkNum(reply), u.self)

\* set_power(pow, unit): set_power_unit(unit) comes first, the check of pow
\* against the bounds of the unit after it
TSL710_set_power(obj, pow, unit) ==
  LET u == TSL710_set_power_unit(obj, unit) IN
  IF u.res.status # "ok" THEN u
  ELSE IF unit = s_mW
       THEN IF pow >= obj.min_pow_mW /\ pow <= obj.max_pow_mW
            THEN Outcome(u.wire \o <<Write(":pow ", <<pow>>, <<>>)>>, Ok, u.self)
            ELSE Outcome(u.wire,
                         Raise("ValueError", RangeMsg("pow", obj.min_pow_mW, obj.max_pow_mW)), u.self)
       ELSE IF unit = s_dBm
       THEN IF pow >= obj.min_pow_dBm /\ pow <= obj.max_pow_dBm
            THEN Outcome(u.wire \o <<Write(":pow ", <<pow>>, <<>>)>>, Ok, u.self)
            ELSE Outcome(u.wire,
                         Raise("ValueError", RangeMsg("pow", obj.min_pow_dBm, obj.max_pow_dBm)), u.self)
       ELSE Outcome(u.wire, Raise("ValueError", EnumMsg("unit", <<"mW", "dBm">>)), u.self)

\* the table of get_trig_out with two labels exchanged
TrigOutLabel_swapped == <<s_none, s_start, s_stop, s_step>>

\* settings = {0:'none', 1:'stop', 2:'start', 3:'step'} of get_trig_out
TrigOutLabel == <<s_none, s_stop, s_start, s_step>>

\* get_trig_out: settings[trig], a KeyError when trig is no key
TSL710_get_trig_out(obj, trig) ==
  Outcome(<<Query(":trig:outp?")>>,
          IF trig \in 0..3 THEN OkTxt(TrigOutLabel[trig + 1]) ELSE Raise("KeyError", NoMsg),
          obj)

\* settings = {'none':0, 'stop':1, 'start':2, 'step':3} of set_trig_out
TrigOutSettings ==
  {<<s_none, 0>>, <<s_stop, 1>>, <<s_start, 2>>, <<s_step, 3>>}

\* settings[label]
TrigOutCode(label) ==
  (CHOOSE p \in TrigOutSettings : p[1] = label)[2]

TSL710_set_trig_out(obj, trig) ==
  IF \E p \in TrigOutSettings : p[1] = lower(trig)
  THEN Outcome(<<Write(":trig:outp ", <<TrigOutCode(lower(trig))>>, <<>>)>>, Ok, obj)
  ELSE Outcome(<<>>,
               Raise("ValueError", EnumMsg("trig", <<"none", "stop", "start", "step">>)), obj)

TSL710_output_off(obj) ==
  Outcome(<<Write(":pow:stat 0", <<>>, <<>>)>>, Ok, obj)

TSL710_output_on(obj) ==
  Outcome(<<Write(":pow:stat 1", <<>>, <<>>)>>, Ok, obj)

(***************************************************************************)
(* Lasers/Santec2.py: class TSL and its models TSL710 and TSL770.          *)
(***************************************************************************)
\* get_power_unit reading the code 1 as dBm
TSL_get_power_unit_swapped(obj, unit) ==
  Outcome(<<Query(":pow:unit?")>>,
          IF unit = 1 THEN OkTxt(s_dBm) ELSE OkTxt(s_mW),
          obj)

\* get_power_unit: unit is the code the instrument replied
TSL_get_power_unit(obj, unit) ==
  Outcome(<<Query(":pow:unit?")>>,
          IF unit = 0 THEN OkTxt(s_dBm) ELSE OkTxt(s_mW),
          obj)

\* TSL.__init__ then TSL710.__init__: unit is the reply to the ':pow:unit?'
\* query of the constructor
TSL2_710_init(idn, unit) ==
  LET g == TSL_get_power_unit(<<>>, unit) IN
  Built(<<Query("*IDN?")>> \o g.wire, Ok,
    [min_wl |-> 1480000, max_wl |-> 1640000,
     min_spd |-> 500, max_spd |-> 100000, max_del |-> 999900,
     pow_unit |-> g.res.txt,
     min_pow_mW |-> 10, max_pow_mW |-> 10000,
     min_pow_dBm |-> -20000, max_pow_dBm |-> 10000],
    PrintIf(idn[1] # "SANTEC", "Device not recognized as a Santec laser.")
      \o PrintIf(idn[2] # "TSL-710", "{idn[0]} device not recognized as TSL-710."))

\* TSL.__init__ then TSL770.__init__
TSL2_770_init(idn, unit) ==
  LET g == TSL_get_power_unit(<<>>, unit) IN
  Built(<<Query("*IDN?")>> \o g.wire, Ok,
    [min_wl |-> 1480000, max_wl |-> 1640000,
     min_spd |-> 500, max_spd |-> 200000, max_del |-> 999900,
     pow_unit |-> g.res.txt,
     min_pow_mW |-> 200, max_pow_mW |-> 19953,
     min_pow_dBm |-> -7000, max_pow_dBm |-> 13000],
    PrintIf(idn[1] # "SANTEC", "Device not recognized as a Santec laser.")
      \o PrintIf(idn[2] # "TSL-770", "{idn[0]} laser not recognized as TSL-770"))

TSL_get_wavelength(obj, reply) ==
  Outcome(<<Query(":wav?")>>, OkNum(reply), obj)

TSL_set_wavelength(obj, lam) ==
  IF lam < obj.min_wl \/ lam > obj.max_wl
  THEN Outcome(<<>>, Raise("ValueError", RangeMsg("lam", obj.min_wl, obj.max_wl)), obj)
  ELSE Outcome(<<Write(":wav ", <<lam>>, <<>>)>>, Ok, obj)

TSL_get_wave_sweep_start(obj, reply) ==
  Outcome(<<Query(":wav:swe:start?")>>, OkNum(reply), obj)

TSL_set_wave_sweep_start(obj, lam) ==
  IF lam < obj.min_wl \/ lam > obj.max_wl
  THEN Outcome(<<>>, Raise("ValueError", RangeMsg("lam", obj.min_wl, obj.max_wl)), obj)
  ELSE Outcome(<<Write(":wav:swe:start ", <<lam>>, <<>>)>>, Ok, obj)

TSL_get_wave_sweep_stop(obj, reply) ==
  Outcome(<<Query(":wav:swe:stop?")>>, OkNum(reply), obj)

TSL_set_wave_sweep_stop(obj, lam) ==
  IF lam < obj.min_wl \/ lam > obj.max_wl
  THEN Outcome(<<>>, Raise("ValueError", RangeMsg("lam", obj.min_wl, obj.max_wl)), obj)
  ELSE Outcome(<<Write(":wav:swe:stop ", <<lam>>, <<>>)>>, Ok, obj)

TSL_get_wave_sweep_speed(obj, reply) ==
  Outcome(<<Query(":wav:swe:spe?")>>, OkNum(reply), obj)

TSL_set_wave_sweep_speed(obj, speed) ==
  IF speed < obj.min_spd \/ speed > obj.max_spd
  THEN Outcome(<<>>, Raise("ValueError", RangeMsg("speed", obj.min_spd, obj.max_spd)), obj)
  ELSE Outcome(<<Write(":wav:swe:spe ", <<speed>>, <<>>)>>, Ok, obj)

TSL_start_sweep(obj) ==
  Outcome(<<Write(":wav:swe 1", <<>>, <<>>)>>, Ok, obj)

\* set_power_unit with the cached pow_unit assigned ahead of the check
TSL_set_power_unit_cachefirst(obj, unit) ==
  IF unit = s_dBm
  THEN Outcome(<<Write(":pow:unit ", <<0>>, <<>>)>>, Ok, [obj EXCEPT !.pow_unit = unit])
  ELSE IF unit = s_mW
  THEN Outcome(<<Write(":pow:unit ", <<1>>, <<>>)>>, Ok, [obj EXCEPT !.pow_unit = unit])
  ELSE Outcome(<<>>,
               Raise("ValueError", EnumMsg("unit", <<"mW", "dBm">>)), [obj EXCEPT !.pow_unit = unit])

\* set_power_unit: the cached pow_unit is assigned after the write
TSL_set_power_unit(obj, unit) ==
  IF unit = s_dBm
  THEN Outcome(<<Write(":pow:unit ", <<0>>, <<>>)>>, Ok, [obj EXCEPT !.pow_unit = unit])
  ELSE IF unit = s_mW
  THEN Outcome(<<Write(":pow:unit ", <<1>>, <<>>)>>, Ok, [obj EXCEPT !.pow_unit = unit])
  ELSE Outcome(<<>>, Raise("ValueError", EnumMsg("unit", <<"mW", "dBm">>)), obj)

TSL_get_power(obj, reply) ==
  Outcome(<<Query(":pow?")>>, OkNum(reply), obj)

\* set_power checking pow against the dBm bounds whatever the cached unit
TSL_set_power_dBm(obj, pow) ==
  IF pow < obj.min_pow_dBm \/ pow > obj.max_pow_dBm
  THEN Outcome(<<>>,
               Raise("ValueError", RangeMsg("pow", obj.min_pow_dBm, obj.max_pow_dBm)), obj)
  ELSE Outcome(<<Write(":pow ", <<pow>>, <<>>)>>, Ok, obj)

\* set_power: pow is checked against the bounds of the cached unit
TSL_set_power(obj, pow) ==
  IF obj.pow_unit = s_mW
  THEN IF pow < obj.min_pow_mW \/ pow > obj.max_pow_mW
       THEN Outcome(<<>>,
                    Raise("ValueError", RangeMsg("pow", obj.min_pow_mW, obj.max_pow_mW)), obj)
       ELSE Outcome(<<Write(":pow ", <<pow>>, <<>>)>>, Ok, obj)
  ELSE IF pow < obj.min_pow_dBm \/ pow > obj.max_pow_dBm
       THEN Outcome(<<>>,
                    Raise("ValueError", RangeMsg("pow", obj.min_pow_dBm, obj.max_pow_dBm)), obj)
       ELSE Outcome(<<Write(":pow ", <<pow>>, <<>>)>>, Ok, obj)

TSL_output_off(obj) ==
  Outcome(<<Write(":pow:stat 0", <<>>, <<>>)>>, Ok, obj)

TSL_output_on(obj) ==
  Outcome(<<Write(":pow:stat 1", <<>>, <<>>)>>, Ok, obj)


(***************************************************************************)
(* SourceMeters/Keithley.py: class KeithleySourceMeter and Keithley2420.   *)
(***************************************************************************)
\* KeithleySourceMeter.__init__ then Keithley2420.__init__, which ends by
\* turning the output on
Keithley2420_init(idn) ==
  Built(<<Query("*IDN?"), Write(":outp on", <<>>, <<>>)>>, Ok,
    [min_volt |-> -63000, max_volt |-> 63000,
     min_curr |-> -3150, max_curr |-> 3150],
    PrintIf(idn[1] # "KEITHLEY INSTRUMENTS INC.",
            "Device not recognized as a Keithley device.")
      \o PrintIf(idn[2] # "MODEL 2420", "{idn[0]} device not recognized as Model 2420."))

\* get_source_mode without the rstrip
Keithley_get_source_mode_raw(obj, reply) ==
  Outcome(<<Query(":source:func:mode?")>>, OkTxt(reply), obj)

\* get_source_mode: reply is the text the instrument answered
Keithley_get_source_mode(obj, reply) ==
  Outcome(<<Query(":source:func:mode?")>>, OkTxt(rstrip(reply, {"\n"})), obj)

\* set_source_mode: mode is checked in lower case and written as given
Keithley_set_source_mode(obj, mode) ==
  IF lower(mode) \notin {s_volt, s_curr}
  THEN Outcome(<<>>, Raise("ValueError", EnumMsg("mode", <<"volt", "curr">>)), obj)
  ELSE Outcome(<<Write(":source:func:mode ", <<>>, mode)>>, Ok, obj)

\* set_volt that keeps the accepted value as the new upper bound
Keithley_set_volt_narrowing(obj, volt) ==
  IF volt < obj.min_volt \/ volt > obj.max_volt
  THEN Outcome(<<>>,
               Raise("ValueError", RangeMsg("volt", obj.min_volt, obj.max_volt)), obj)
  ELSE Outcome(<<Write(":source:volt ", <<volt>>, <<>>)>>, Ok,
               [obj EXCEPT !.max_volt = volt])

Keithley_set_volt(obj, volt) ==
  IF volt < obj.min_volt \/ volt > obj.max_volt
  THEN Outcome(<<>>, Raise("ValueError", RangeMsg("volt", obj.min_volt, obj.max_volt)), obj)
  ELSE Outcome(<<Write(":source:volt ", <<volt>>, <<>>)>>, Ok, obj)

Keithley_set_curr(obj, curr) ==
  IF curr < obj.min_curr \/ curr > obj.max_curr
  THEN Outcome(<<>>, Raise("ValueError", RangeMsg("curr", obj.min_curr, obj.max_curr)), obj)
  ELSE Outcome(<<Write(":source:curr ", <<curr>>, <<>>)>>, Ok, obj)

\* the measure type picked by a comparison with the lower-case label
MeasType_lower(mode) ==
  IF mode = s_volt THEN "curr" ELSE "volt"

\* the measure type the clamp operations pick for a source mode:
\* if mode == 'VOLT': meas_type = 'curr' else: meas_type = 'volt'
MeasType(mode) ==
  IF mode = s_VOLT THEN "curr" ELSE "volt"

\* f':{meas_type}:prot:level?'
ProtLevelQuery(meas_type) ==
  IF meas_type = "curr" THEN ":curr:prot:level?" ELSE ":volt:prot:level?"

\* f':{meas_type}:prot {limit}'
ProtWrite(meas_type) ==
  IF meas_type = "curr" THEN ":curr:prot " ELSE ":volt:prot "

\* f':{meas_type}:prot def'
ProtDefault(meas_type) ==
  IF meas_type = "curr" THEN ":curr:prot def" ELSE ":volt:prot def"

\* get_clamp_limit addressing the voltage limit only when the mode is CURR
Keithley_get_clamp_limit_curr(obj, modeReply, limitReply) ==
  LET m == Keithley_get_source_mode(obj, modeReply)
      meas_type == IF m.res.txt = s_CURR THEN "volt" ELSE "curr"
  IN Outcome(m.wire \o <<Query(ProtLevelQuery(meas_type))>>, OkNum(limitReply), m.self)

Keithley_get_clamp_limit(obj, modeReply, limitReply) ==
  LET m == Keithley_get_source_mode(obj, modeReply)
      meas_type == MeasType(m.res.txt)
  IN Outcome(m.wire \o <<Query(ProtLevelQuery(meas_type))>>, OkNum(limitReply), m.self)

\* set_clamp_limit: the two range checks are joined by 'and'
Keithley_set_clamp_limit(obj, limit, modeReply) ==
  LET m == Keithley_get_source_mode(obj, modeReply)
      meas_type == MeasType(m.res.txt)
  IN IF m.res.txt = s_VOLT
     THEN IF limit < obj.min_curr /\ limit > obj.max_curr
          THEN Outcome(m.wire,
                       Raise("ValueError", RangeMsg("", obj.min_curr, obj.max_curr)), m.self)
          ELSE Outcome(m.wire \o <<Write(ProtWrite(meas_type), <<limit>>, <<>>)>>, Ok, m.self)
     ELSE IF limit < obj.min_volt /\ limit > obj.max_volt
          THEN Outcome(m.wire,
                       Raise("ValueError", RangeMsg("", obj.min_volt, obj.max_volt)), m.self)
          ELSE Outcome(m.wire \o <<Write(ProtWrite(meas_type), <<limit>>, <<>>)>>, Ok, m.self)

\* reset_clamp sending its command for the measure type of a voltage source,
\* the source mode not queried
Keithley_reset_clamp_blind(obj, modeReply) ==
  Outcome(<<Write(ProtDefault("curr"), <<>>, <<>>)>>, Ok, obj)

Keithley_reset_clamp(obj, modeReply) ==
  LET m == Keithley_get_source_mode(obj, modeReply)
      meas_type == MeasType(m.res.txt)
  IN Outcome(m.wire \o <<Write(ProtDefault(meas_type), <<>>, <<>>)>>, Ok, m.self)

\* is_output_on: state is the number the instrument replied
Keithley_is_output_on(obj, state) ==
  Outcome(<<Query(":output?")>>, OkNum(IF state = 1 THEN 1 ELSE 0), obj)

Keithley_output_on(obj) ==
  Outcome(<<Write(":output 1", <<>>, <<>>)>>, Ok, obj)

Keithley_output_off(obj) ==
  Outcome(<<Write(":output 0", <<>>, <<>>)>>, Ok, obj)

\* meas_volt: the first value of the ':read?' reply
Keithley_meas_volt(obj, reply) ==
  Outcome(<<Query(":read?")>>, OkNum(reply), obj)

(***************************************************************************)
(* OpticalAttenuators/HP.py: class HPAttenuator and HP8156A.               *)
(***************************************************************************)
\* HPAttenuator.__init__ then HP8156A.__init__
HP8156A_init(idn) ==
  Built(<<Query("*IDN?")>>, Ok,
    [min_att |-> 0, max_att |-> 60000,
     min_wl |-> 1200000, max_wl |-> 1650000],
    PrintIf(idn[1] # "HEWLETT-PACKARD",
            "Device not recognized as a Hewlett-Packard device.")
      \o PrintIf(idn[2] # "HP8156A", "{idn[0]} device not recognized as HP8156A."))

HP_get_attenuation(obj, reply) ==
  Outcome(<<Query(":inp:att?")>>, OkNum(reply), obj)

\* set_attenuation with the write ahead of the range check
HP_set_attenuation_early(obj, att) ==
  IF att < obj.min_att \/ att > obj.max_att
  THEN Outcome(<<Write(":inp:att ", <<att>>, <<>>)>>,
               Raise("ValueError", RangeMsgGiven("att", obj.min_att, obj.max_att, att)), obj)
  ELSE Outcome(<<Write(":inp:att ", <<att>>, <<>>)>>, Ok, obj)

HP_set_attenuation(obj, att) ==
  IF att < obj.min_att \/ att > obj.max_att
  THEN Outcome(<<>>,
               Raise("ValueError", RangeMsgGiven("att", obj.min_att, obj.max_att, att)), obj)
  ELSE Outcome(<<Write(":inp:att ", <<att>>, <<>>)>>, Ok, obj)

HP_get_wavelength(obj, reply) ==
  Outcome(<<Query(":inp:wav?")>>, OkNum(reply), obj)

HP_set_wavelength(obj, lam) ==
  IF lam < obj.min_wl \/ lam > obj.max_wl
  THEN Outcome(<<>>,
               Raise("ValueError", RangeMsgGiven("lam", obj.min_wl, obj.max_wl, lam)), obj)
  ELSE Outcome(<<Write(":inp:wav ", <<lam>>, <<>>)>>, Ok, obj)

HP_output_off(obj) ==
  Outcome(<<Write(":outp off", <<>>, <<>>)>>, Ok, obj)

HP_output_on(obj) ==
  Outcome(<<Write(":outp on", <<>>, <<>>)>>, Ok, obj)

(***************************************************************************)
(* SpectrumAnalyzers/Yokogawa.py: class YokogawaOSA and AQ6370D.           *)
(***************************************************************************)
\* YokogawaOSA.__init__ then AQ6370D.__init__
AQ6370D_init(idn) ==
  Built(<<Query("*IDN?")>>, Ok,
    [min_wl |-> 600000, max_wl |-> 1700000,
     min_span |-> 100, max_span |-> 1100000],
    PrintIf(idn[1] # "YOKOGAWA", "Device not recognized as a Yokogawa device.")
      \o PrintIf(idn[2] # "AQ6370D", "{idn[0]} device not recognized as AQ6370D."))

Yokogawa_get_wave_center(obj, reply) ==
  Outcome(<<Query(":sens:wav:cent?")>>, OkNum(reply), obj)

Yokogawa_set_wave_center(obj, lam) ==
  IF lam < obj.min_wl \/ lam > obj.max_wl
  THEN Outcome(<<>>, Raise("ValueError", RangeMsg("lam", obj.min_wl, obj.max_wl)), obj)
  ELSE Outcome(<<Write(":sens:wav:cent ", <<lam>>, <<>>)>>, Ok, obj)

Yokogawa_get_wave_span(obj, reply) ==
  Outcome(<<Query(":sens:wav:span?")>>, OkNum(reply), obj)

Yokogawa_set_wave_span(obj, span) ==
  IF span < obj.min_span \/ span > obj.max_span
  THEN Outcome(<<>>, Raise("ValueError", RangeMsg("span", obj.min_span, obj.max_span)), obj)
  ELSE Outcome(<<Write(":sens:wav:span ", <<span>>, <<>>)>>, Ok, obj)

\* get_sweep_mode: mode is the code the instrument replied
Yokogawa_get_sweep_mode(obj, mode) ==
  Outcome(<<Query(":init:smode?")>>,
          IF mode = 1 THEN OkTxt(s_single)
          ELSE IF mode = 2 THEN OkTxt(s_repeat)
          ELSE IF mode = 3 THEN OkTxt(s_auto)
          ELSE OkTxt(s_segment),
          obj)

\* set_sweep_mode: mode is checked in lower case and written as given
Yokogawa_set_sweep_mode(obj, mode) ==
  IF lower(mode) \notin {s_single, s_repeat, s_auto, s_segment}
  THEN Outcome(<<>>,
               Raise("ValueError", EnumMsg("mode", <<"single", "repeat", "auto", "segment">>)), obj)
  ELSE Outcome(<<Write(":init:smode ", <<>>, mode)>>, Ok, obj)

Yokogawa_run_sweep(obj) ==
  Outcome(<<Write(":initiate", <<>>, <<>>)>>, Ok, obj)

\* single_shot: active is the text replied to ':trace:active?', x and y the
\* values replied for the trace; the result is y with x as its axis
Yokogawa_single_shot(obj, active, x, y) ==
  LET trace == rstrip(active, Whitespace) IN
  Outcome(<<Write(":abort", <<>>, <<>>), Query(":trace:active?"),
            [kind |-> "query", head |-> ":trace:x? ", slot |-> <<>>, num |-> <<>>, txt |-> trace,
             term |-> <<>>],
            [kind |-> "query", head |-> ":trace:y? ", slot |-> <<>>, num |-> <<>>, txt |-> trace,
             term |-> <<>>]>>,
          [status |-> "ok", num |-> y, txt |-> <<>>, axis |-> x],
          obj)

(***************************************************************************)
(* OpticalPowerMeters/Keysight.py: class N7744A.                           *)
(***************************************************************************)
N7744A_init(idn) ==
  Built(<<Query("*IDN?")>>, Ok,
    [min_wl |-> 1250000, max_wl |-> 1650000],
    PrintIf(idn[1] # "Keysight Technologies" /\ idn[2] # "N7744A",
            "Device not recognized as Keysight Keysight N7744A."))

\* get_wavelength(ch): for a channel outside 1..4 the ValueError is returned
N7744A_get_wavelength(obj, ch, reply) ==
  IF ch \in 1..4
  THEN Outcome(<<QuerySlot(":sens{ch}:pow:wav?", <<ch>>)>>, OkNum(reply), obj)
  ELSE Outcome(<<>>, OkObj("ValueError", EnumMsg("ch", <<"1", "2", "3", "4">>)), obj)

\* set_wavelength(lam, ch): both failures return the ValueError
N7744A_set_wavelength(obj, lam, ch) ==
  IF ch \in 1..4
  THEN IF lam >= obj.min_wl /\ lam <= obj.max_wl
       THEN Outcome(<<WriteSlot(":sens{ch}:pow:wav ", <<ch>>, <<lam>>, <<>>)>>, Ok, obj)
       ELSE Outcome(<<>>, OkObj("ValueError", RangeMsg("lam", obj.min_wl, obj.max_wl)), obj)
  ELSE Outcome(<<>>, OkObj("ValueError", EnumMsg("ch", <<"1", "2", "3", "4">>)), obj)

\* meas_power(ch)
N7744A_meas_power(obj, ch, reply) ==
  IF ch \in 1..4
  THEN Outcome(<<QuerySlot(":read{ch}:pow?", <<ch>>)>>, OkNum(reply), obj)
  ELSE Outcome(<<>>, Raise("ValueError", EnumMsg("ch", <<"1", "2", "3", "4">>)), obj)

\* get_power_unit(verbose=True): unit is the code the instrument replied
N7744A_get_power_unit(obj, unit) ==
  Outcome(<<Query(":sens:pow:unit?")>>,
          IF unit = 1 THEN OkTxt(s_W) ELSE OkTxt(s_dBm),
          obj)

\* set_power_unit: the code is the second argument of write, the message is
\* ':sens:pow:unit ' alone; the code 0 is no termination and the message goes
\* out as it is, the code 1 is a termination that is not text, on which the
\* transport raises (raises) or which it ignores
N7744A_set_power_unit(obj, unit, raises) ==
  IF unit \in {s_dBm, s_W}
  THEN LET code == IF unit = s_dBm THEN 0 ELSE 1
           call == WriteTerm(":sens:pow:unit ", code)
       IN IF code # 0 /\ raises
          THEN Outcome(<<call>>, Raise("TypeError", NoMsg), obj)
          ELSE Outcome(<<call>>, Ok, obj)
  ELSE Outcome(<<>>, Raise("ValueError", EnumMsg("unit", <<"dBm", "W">>)), obj)


(***************************************************************************)
(* SignalAnalyzers/Keysight.py: class KeysightSA and N9010A.               *)
(* A frequency in Hz is the pair <<g, r>> for g * 10^9 + r with            *)
(* 0 <= r < 10^9 in the range-checked setters (44e9 is <<44, 0>>).         *)
(***************************************************************************)
\* KeysightSA.__init__ then N9010A.__init__
N9010A_init(idn) ==
  Built(<<Query("*IDN?")>>, Ok,
    [min_freq |-> <<0, 10>>, max_freq |-> <<44, 0>>],
    PrintIf(idn[1] # "Agilent Technologies", "Device not recognized as a Keysight device.")
      \o PrintIf(idn[2] # "N9010A", "{idn[0]} device not recognized as N9010A."))

\* a < b on frequencies
FreqLess(a, b) ==
  a[1] < b[1] \/ (a[1] = b[1] /\ a[2] < b[2])

KeysightSA_get_center_freq(obj, reply) ==
  Outcome(<<Query(":freq:cent?")>>, OkNum(reply), obj)

KeysightSA_set_center_freq(obj, freq) ==
  IF FreqLess(freq, obj.min_freq) \/ FreqLess(obj.max_freq, freq)
  THEN Outcome(<<>>,
               Raise("ValueError", RangeMsgGiven("freq", obj.min_freq, obj.max_freq, freq)), obj)
  ELSE Outcome(<<Write(":freq:cent {freq}Hz", freq, <<>>)>>, Ok, obj)

KeysightSA_get_freq_start(obj, reply) ==
  Outcome(<<Query(":freq:start?")>>, OkNum(reply), obj)

KeysightSA_set_freq_start(obj, freq) ==
  IF FreqLess(freq, obj.min_freq) \/ FreqLess(obj.max_freq, freq)
  THEN Outcome(<<>>,
               Raise("ValueError", RangeMsgGiven("freq", obj.min_freq, obj.max_freq, freq)), obj)
  ELSE Outcome(<<Write(":freq:start {freq}Hz", freq, <<>>)>>, Ok, obj)

KeysightSA_get_freq_stop(obj, reply) ==
  Outcome(<<Query(":freq:stop?")>>, OkNum(reply), obj)

KeysightSA_set_freq_stop(obj, freq) ==
  IF FreqLess(freq, obj.min_freq) \/ FreqLess(obj.max_freq, freq)
  THEN Outcome(<<>>,
               Raise("ValueError", RangeMsgGiven("freq", obj.min_freq, obj.max_freq, freq)), obj)
  ELSE Outcome(<<Write(":freq:stop {freq}Hz", freq, <<>>)>>, Ok, obj)

\* averaging(count): two writes
KeysightSA_averaging(obj, count) ==
  Outcome(<<Write(":trace:type aver", <<>>, <<>>),
            Write(":aver:coun ", <<count>>, <<>>)>>, Ok, obj)

\* np.linspace(f1, f2, n, endpoint=False)
linspace_open(f1, f2, n) ==
  [i \in 1..n |-> <<f1 * n + (i - 1) * (f2 - f1), n>>]

\* np.linspace(f1, f2, n): entry i is the fraction <<numerator, denominator>>
\* of f1 + i * (f2 - f1) / (n - 1); the last entry is assigned f2; for
\* n = 1 the divisor is 0, no step is applied and the entry is f1
linspace(f1, f2, n) ==
  LET div == n - 1 IN
  [i \in 1..n |->
     IF div = 0 THEN <<f1, 1>>
     ELSE IF i = n THEN <<f2, 1>>
     ELSE <<f1 * div + (i - 1) * (f2 - f1), div>>]

\* get_trace with the byte order swapped after the trace is queried
KeysightSA_get_trace_late(obj, bord, trace, f1, f2) ==
  LET byte_order == rstrip(bord, Whitespace)
      start == KeysightSA_get_freq_start(obj, f1)
      stop == KeysightSA_get_freq_stop(obj, f2)
  IN Outcome(<<Write(":form:data real,32", <<>>, <<>>), Query(":form:bord?")>>
               \o <<Query(":trace:data? trace1")>>
               \o (IF byte_order = s_NORM
                   THEN <<Write(":form:bord swap", <<>>, <<>>)>>
                   ELSE <<>>)
               \o start.wire \o stop.wire,
             [status |-> "ok", num |-> trace, txt |-> <<>>, msg |-> NoMsg,
              axis |-> linspace(start.res.num[1], stop.res.num[1], Len(trace))],
             obj)

\* get_trace: bord is the text replied to ':form:bord?', trace the values
\* replied to ':trace:data? trace1', f1 and f2 the start and stop frequency
KeysightSA_get_trace(obj, bord, trace, f1, f2) ==
  LET byte_order == rstrip(bord, Whitespace)
      start == KeysightSA_get_freq_start(obj, f1)
      stop == KeysightSA_get_freq_stop(obj, f2)
  IN Outcome(<<Write(":form:data real,32", <<>>, <<>>), Query(":form:bord?")>>
               \o (IF byte_order = s_NORM
                   THEN <<Write(":form:bord swap", <<>>, <<>>)>>
                   ELSE <<>>)
               \o <<Query(":trace:data? trace1")>>
               \o start.wire \o stop.wire,
             [status |-> "ok", num |-> trace, txt |-> <<>>, msg |-> NoMsg,
              axis |-> linspace(start.res.num[1], stop.res.num[1], Len(trace))],
             obj)

(***************************************************************************)
(* MeasurementSystems/Agilent.py: class AgilentLaser and Agilent81689A.    *)
(***************************************************************************)
\* get_power_unit: unit is the code the instrument replied
AgilentLaser_get_power_unit(obj, unit) ==
  Outcome(<<QuerySlot(":sour{slot}:pow:unit?", <<obj.slot>>)>>,
          IF unit = 0 THEN OkTxt(s_dBm) ELSE OkTxt(s_W),
          obj)

\* Powers of the Agilent modules are in 1/1000 dBm and in microwatts.
\* AgilentMainframe.__init__, AgilentLaser.__init__, Agilent81689A.__init__:
\* idn is the reply to '*IDN?', module_id the reply to the slot's
\* identification query, unit the reply to the power-unit query
Agilent81689A_init(idn, module_id, slot, unit) ==
  LET g == AgilentLaser_get_power_unit([slot |-> slot], unit) IN
  Built(<<Query("*IDN?")>> \o g.wire \o <<QuerySlot(":slot{slot}:idn?", <<slot>>)>>, Ok,
    [slot |-> slot, wl_unit |-> <<"m">>, pow_unit |-> g.res.txt,
     min_wl |-> 1465000, max_wl |-> 1575000,
     min_pow_dBm |-> -10000, max_pow_dBm |-> 13000,
     min_pow_mW |-> 100, max_pow_mW |-> 20000],
    PrintIf(idn[1] # "Agilent Technologies" \/ idn[2] # "8164B",
            "Device not recognized as Keysight 8164B.")
      \o PrintIf(module_id[1] # "HEWLETT-PACKARD" \/ module_id[2] # " HP 81689A",
                 "Slot module not recognized as HP 81689A."))

\* set_power_unit: the label is written as given, then cached
AgilentLaser_set_power_unit(obj, unit) ==
  IF unit # s_dBm /\ unit # s_W
  THEN Outcome(<<>>, Raise("ValueError", EnumMsg("unit", <<"dBm", "W">>)), obj)
  ELSE Outcome(<<WriteSlot(":sour{slot}:pow:unit ", <<obj.slot>>, <<>>, unit)>>, Ok,
               [obj EXCEPT !.pow_unit = unit])

AgilentLaser_get_wavelength(obj, reply) ==
  Outcome(<<QuerySlot(":sour{slot}:wav?", <<obj.slot>>)>>, OkNum(reply), obj)

\* set_wavelength: the value is followed by the wavelength unit
AgilentLaser_set_wavelength(obj, lam) ==
  IF lam < obj.min_wl \/ lam > obj.max_wl
  THEN Outcome(<<>>, Raise("ValueError", RangeMsg("lam", obj.min_wl, obj.max_wl)), obj)
  ELSE Outcome(<<WriteSlot(":sour{slot}:wav ", <<obj.slot>>, <<lam>>, obj.wl_unit)>>, Ok, obj)

\* AgilentMainframe.set_trig_config: the label is written as given
AgilentMainframe_set_trig_config(obj, conf) ==
  IF lower(conf) \notin {s_dis, s_def, s_pass, s_loop}
  THEN Outcome(<<>>, Raise("ValueError", EnumMsg("conf", <<>>)), obj)
  ELSE Outcome(<<Write(":trig:conf ", <<>>, conf)>>, Ok, obj)

AgilentLaser_get_wave_sweep_start(obj, reply) ==
  Outcome(<<QuerySlot(":sour{slot}:wav:swe:star?", <<obj.slot>>)>>, OkNum(reply), obj)

\* set_wave_sweep_start: out of range, the ValueError is returned
AgilentLaser_set_wave_sweep_start(obj, lam) ==
  IF lam < obj.min_wl \/ lam > obj.max_wl
  THEN Outcome(<<>>, OkObj("ValueError", RangeMsg("lam", obj.min_wl, obj.max_wl)), obj)
  ELSE Outcome(<<WriteSlot(":sour{slot}:wav:swe:star ", <<obj.slot>>, <<lam>>, obj.wl_unit)>>,
               Ok, obj)

AgilentLaser_get_wave_sweep_stop(obj, reply) ==
  Outcome(<<QuerySlot(":sour{slot}:wav:swe:stop?", <<obj.slot>>)>>, OkNum(reply), obj)

\* set_wave_sweep_stop: out of range, the ValueError is returned
AgilentLaser_set_wave_sweep_stop(obj, lam) ==
  IF lam < obj.min_wl \/ lam > obj.max_wl
  THEN Outcome(<<>>, OkObj("ValueError", RangeMsg("lam", obj.min_wl, obj.max_wl)), obj)
  ELSE Outcome(<<WriteSlot(":sour{slot}:wav:swe:stop ", <<obj.slot>>, <<lam>>, obj.wl_unit)>>,
               Ok, obj)

AgilentLaser_get_power(obj, reply) ==
  Outcome(<<QuerySlot(":sour{slot}:pow?", <<obj.slot>>)>>, OkNum(reply), obj)

\* set_power: the value is written followed by the cached power unit
AgilentLaser_set_power(obj, pow) ==
  Outcome(<<WriteSlot("sour{slot}:pow ", <<obj.slot>>, <<pow>>, obj.pow_unit)>>, Ok, obj)

AgilentLaser_start_sweep(obj) ==
  Outcome(<<WriteSlot(":sour{slot}:wav:swe 1", <<obj.slot>>, <<>>, <<>>)>>, Ok, obj)


(***************************************************************************)
(* MeasurementSystems/Agilent.py: class AgilentPowerMeter and Agilent81634B. *)
(***************************************************************************)
\* get_power_unit: unit is the code the instrument replied
AgilentPowerMeter_get_power_unit(obj, unit) ==
  Outcome(<<QuerySlot("sens{slot}:pow:unit?", <<obj.slot>>)>>,
          IF unit = 0 THEN OkTxt(s_dBm) ELSE OkTxt(s_W),
          obj)

\* AgilentMainframe.__init__, AgilentPowerMeter.__init__, Agilent81634B.__init__
Agilent81634B_init(idn, module_id, slot, unit) ==
  LET g == AgilentPowerMeter_get_power_unit([slot |-> slot], unit) IN
  Built(<<Query("*IDN?")>> \o g.wire \o <<QuerySlot(":slot{slot}:idn?", <<slot>>)>>, Ok,
    [slot |-> slot, wl_unit |-> <<"m">>, pow_unit |-> g.res.txt,
     min_wl |-> 800000, max_wl |-> 1700000],
    PrintIf(idn[1] # "Agilent Technologies" \/ idn[2] # "8164B",
            "Device not recognized as Keysight 8164B.")
      \o PrintIf(module_id[1] # "Agilent Technologies" \/ module_id[2] # "81634B",
                 "Slot module not recognized as Agilent 81634B."))

\* set_power_unit with the label cached ahead of the validation
AgilentPowerMeter_set_power_unit_early(obj, unit) ==
  IF unit # s_dBm /\ unit # s_W
  THEN Outcome(<<>>, Raise("ValueError", EnumMsg("unit", <<"dBm", "W">>)),
               [obj EXCEPT !.pow_unit = unit])
  ELSE Outcome(<<WriteSlot(":sens{slot}:pow:unit ", <<obj.slot>>, <<>>, unit)>>, Ok,
               [obj EXCEPT !.pow_unit = unit])

\* set_power_unit: the label is written as given, then cached
AgilentPowerMeter_set_power_unit(obj, unit) ==
  IF unit # s_dBm /\ unit # s_W
  THEN Outcome(<<>>, Raise("ValueError", EnumMsg("unit", <<"dBm", "W">>)), obj)
  ELSE Outcome(<<WriteSlot(":sens{slot}:pow:unit ", <<obj.slot>>, <<>>, unit)>>, Ok,
               [obj EXCEPT !.pow_unit = unit])

AgilentPowerMeter_get_wavelength(obj, reply) ==
  Outcome(<<QuerySlot(":sens{slot}:pow:wav?", <<obj.slot>>)>>, OkNum(reply), obj)

AgilentPowerMeter_set_wavelength(obj, lam) ==
  IF lam < obj.min_wl \/ lam > obj.max_wl
  THEN Outcome(<<>>, Raise("ValueError", RangeMsg("lam", obj.min_wl, obj.max_wl)), obj)
  ELSE Outcome(<<WriteSlot(":sens{slot}:pow:wav ", <<obj.slot>>, <<lam>>, obj.wl_unit)>>,
               Ok, obj)

\* round(power, -1) of a power in thousandths: the nearest multiple of ten,
\* the even one of the two when power is half way between them
round_tens(power) ==
  LET q == power \div 10000
      r == power % 10000
  IN IF r < 5000 THEN 10000 * q
     ELSE IF r > 5000 THEN 10000 * (q + 1)
     ELSE IF q % 2 = 0 THEN 10000 * q ELSE 10000 * (q + 1)

\* set_power_range with power cut down to the ten below it
AgilentPowerMeter_set_power_range_floor(obj, power) ==
  LET p == 10000 * (power \div 10000)
      q == IF p < -110000 THEN -110000 ELSE IF p > 30000 THEN 30000 ELSE p
  IN Outcome(<<WriteSlot(":sens{slot}:pow:rang ", <<obj.slot>>, <<q>>, upper(s_dBm))>>,
             Ok, obj)

\* set_power_range: power is rounded, then brought into -110..30
AgilentPowerMeter_set_power_range(obj, power) ==
  LET p == round_tens(power)
      q == IF p < -110000 THEN -110000 ELSE IF p > 30000 THEN 30000 ELSE p
  IN Outcome(<<WriteSlot(":sens{slot}:pow:rang ", <<obj.slot>>, <<q>>, upper(s_dBm))>>,
             Ok, obj)

\* measure_power: the measurement is initiated, then read
AgilentPowerMeter_measure_power(obj, reply) ==
  Outcome(<<WriteSlot(":init{slot}", <<obj.slot>>, <<>>, <<>>),
            QuerySlot(":read{slot}:pow?", <<obj.slot>>)>>, OkNum(reply), obj)


(***************************************************************************)
(* The instrument behind the session.  It keeps the enumerated settings    *)
(* the wrappers read back, answers a query with the setting it is in, and  *)
(* applies the write commands that change one (SCPI keywords are not       *)
(* case-sensitive).                                                        *)
(***************************************************************************)
MaxSlot == 2

Classes ==
  {"Santec.TSL710", "Santec2.TSL710", "Santec2.TSL770", "Keithley2420",
   "HP8156A", "AQ6370D", "N7744A", "N9010A", "Agilent81689A", "Agilent81634B"}

\* the modules in a slot of the Agilent mainframe
AgilentClasses == {"Agilent81689A", "Agilent81634B"}

Santec2Classes == {"Santec2.TSL710", "Santec2.TSL770"}

DevStates(c) ==
  IF c \in {"Santec.TSL710"} \cup Santec2Classes
  THEN [pow_unit : 0..MaxUnitCode, trig_out : 0..MaxCode]
  ELSE IF c = "Keithley2420" THEN [source_mode : {s_VOLT, s_CURR, s_MEM}]
  ELSE IF c = "AQ6370D" THEN [smode : 0..MaxCode]
  ELSE IF c \in {"N7744A"} \cup AgilentClasses THEN [pow_unit : 0..MaxUnitCode]
  ELSE IF c = "N9010A" THEN [bord : {s_NORM, s_SWAP}]
  ELSE [idle : {TRUE}]

\* the code of a Yokogawa sweep mode label
SweepModeCode(label) ==
  IF label = s_single THEN 1
  ELSE IF label = s_repeat THEN 2
  ELSE IF label = s_auto THEN 3
  ELSE 4

\* the instrument after one transport call
DevWrite(d, c) ==
  IF c.kind # "write" THEN d
  ELSE IF c.head = ":pow:unit " THEN [d EXCEPT !.pow_unit = c.num[1]]
  ELSE IF c.head = ":trig:outp " THEN [d EXCEPT !.trig_out = c.num[1]]
  ELSE IF c.head = ":source:func:mode " THEN [d EXCEPT !.source_mode = upper(c.txt)]
  ELSE IF c.head = ":init:smode " THEN [d EXCEPT !.smode = SweepModeCode(lower(c.txt))]
  ELSE IF c.head = ":form:bord swap" THEN [d EXCEPT !.bord = s_SWAP]
  ELSE IF c.head \in {":sour{slot}:pow:unit ", ":sens{slot}:pow:unit "}
       THEN [d EXCEPT !.pow_unit = IF lower(c.txt) = lower(s_dBm) THEN 0 ELSE 1]
  ELSE d

\* the instrument after a sequence of transport calls
RECURSIVE DevApply(_, _)
DevApply(d, w) ==
  IF w = <<>> THEN d ELSE DevApply(DevWrite(d, Head(w)), Tail(w))

\* a text reply comes with or without the line terminator
WithTerminator(t) == {t, t \o <<"\n">>}

\* numeric telemetry the instrument may reply
Telemetry == 0..MaxReply

\* the construction of an object of class c on an instrument in state d
Construct(c, d, slot, idn, module_id) ==
  IF c = "Santec.TSL710" THEN TSL710_init(idn)
  ELSE IF c = "Santec2.TSL710" THEN TSL2_710_init(idn, d.pow_unit)
  ELSE IF c = "Santec2.TSL770" THEN TSL2_770_init(idn, d.pow_unit)
  ELSE IF c = "Keithley2420" THEN Keithley2420_init(idn)
  ELSE IF c = "HP8156A" THEN HP8156A_init(idn)
  ELSE IF c = "AQ6370D" THEN AQ6370D_init(idn)
  ELSE IF c = "N7744A" THEN N7744A_init(idn)
  ELSE IF c = "N9010A" THEN N9010A_init(idn)
  ELSE IF c = "Agilent81689A" THEN Agilent81689A_init(idn, module_id, slot, d.pow_unit)
  ELSE Agilent81634B_init(idn, module_id, slot, d.pow_unit)

\* the vendor and model fields the instrument of a class identifies itself
\* with, and those of the module in a slot of the Agilent mainframe
Identity(c) ==
  IF c = "Santec.TSL710" THEN <<"Santec", "TSL-710">>
  ELSE IF c = "Santec2.TSL710" THEN <<"SANTEC", "TSL-710">>
  ELSE IF c = "Santec2.TSL770" THEN <<"SANTEC", "TSL-770">>
  ELSE IF c = "Keithley2420" THEN <<"KEITHLEY INSTRUMENTS INC.", "MODEL 2420">>
  ELSE IF c = "HP8156A" THEN <<"HEWLETT-PACKARD", "HP8156A">>
  ELSE IF c = "AQ6370D" THEN <<"YOKOGAWA", "AQ6370D">>
  ELSE IF c = "N7744A" THEN <<"Keysight Technologies", "N7744A">>
  ELSE IF c = "N9010A" THEN <<"Agilent Technologies", "N9010A">>
  ELSE <<"Agilent Technologies", "8164B">>

ModuleIdentity(c) ==
  IF c = "Agilent81634B" THEN <<"Agilent Technologies", "81634B">>
  ELSE <<"HEWLETT-PACKARD", " HP 81689A">>

\* the identification replies a session may give in place of id: each field
\* is the one of id or that of another instrument
IdnReplies(id) == {id[1], "ACME"} \X {id[2], "X-1"}

Callers == {1, 2}

IdleCaller == [pc |-> "idle", oper |-> "", mode |-> <<>>, meas |-> "", at |-> <<>>]

Constructed ==
  /\ cls \in Classes
  /\ dev \in DevStates(cls)
  /\ \E slot \in 1..MaxSlot, idn \in IdnReplies(Identity(cls)),
        module_id \in IdnReplies(ModuleIdentity(cls)) :
       LET c == Construct(cls, dev, slot, idn, module_id) IN
       /\ self = c.self
       /\ wire = c.wire
       /\ res = c.res
       /\ printed = c.printed
       /\ got = IF cls \in AgilentClasses THEN <<idn, module_id>> ELSE <<idn>>
       /\ (cls \notin AgilentClasses => slot = 1 /\ module_id = ModuleIdentity(cls))
  /\ op = "__init__"
  /\ arg = NoArg
  /\ prev = ""
  /\ callers = [c \in Callers |-> IdleCaller]
  /\ lock = [used |-> FALSE, holder |-> 0]

\* a transport none of whose calls raises
Reliable == [flaky |-> FALSE, failed |-> 0]

\* a transport whose calls may raise
Flaky == [flaky |-> TRUE, failed |-> 0]

Init == Constructed /\ link = Reliable

InitFail == Constructed /\ link = Flaky

\* the calls whose normal return is remembered through the next call
Tracked ==
  {"set_source_mode", "set_power_unit", "get_power_unit", "set_trig_out",
   "get_trig_out"}

\* one call of method name with argument a and outcome out, the instrument
\* having replied the numbers g to its queries; prev becomes the call before
\* it when that was a tracked call that returned normally
\* as Failed, but with the fields the method assigns already assigned
Failed_committing(obj, out, k) ==
  Outcome(SubSeq(out.wire, 1, k), Raise("VisaIOError", NoMsg), out.self)

\* the outcome of a method whose k-th transport call raises, out being its
\* outcome on a transport that does not: no method catches an exception, so
\* the calls stop at the k-th and the exception is the caller's; the methods
\* that assign a field (set_power_unit) do so after their last transport
\* call, so the object is as it was
Failed(obj, out, k) ==
  Outcome(SubSeq(out.wire, 1, k), Raise("VisaIOError", NoMsg), obj)

\* the positions at which the transport may raise during the calls w, 0
\* standing for nowhere
FailPoints(w) == IF link.flaky THEN 0..Len(w) ELSE {0}

\* the instrument after the calls w the k-th of which raised: a write that
\* raised may or may not have reached it
DevAfter(d, w, k) ==
  IF k = 0 THEN {DevApply(d, w)}
  ELSE {DevApply(d, SubSeq(w, 1, k - 1)), DevApply(d, SubSeq(w, 1, k))}

CallGot(name, a, out, g) ==
  \E k \in FailPoints(out.wire) :
    LET o == IF k = 0 THEN out ELSE Failed(self, out, k) IN
    /\ op' = name
    /\ arg' = a
    /\ wire' = o.wire
    /\ res' = o.res
    /\ self' = o.self
    /\ dev' \in DevAfter(dev, out.wire, k)
    /\ prev' = IF op \in Tracked /\ res.status = "ok" THEN op ELSE ""
    /\ got' = IF k = 0 THEN g ELSE <<>>
    /\ printed' = <<>>
    /\ link' = [link EXCEPT !.failed = k]
    /\ UNCHANGED <<cls, callers, lock>>

\* a call whose replies are not kept
Call(name, a, out) == CallGot(name, a, out, <<>>)

(***************************************************************************)
(* Arguments of the calls.                                                 *)
(***************************************************************************)
PowerUnitLabels ==
  CaseVariants(s_dBm) \cup CaseVariants(s_mW) \cup {s_W, s_invalid}

TrigOutLabels ==
  CaseVariants(s_stop)
    \cup {s_none, s_start, s_step, upper(s_none), upper(s_start), upper(s_step)}
    \cup {s_invalid}

SourceModeLabels ==
  CaseVariants(s_volt) \cup CaseVariants(s_curr) \cup {s_invalid}

SweepModeLabels ==
  {s_single, s_repeat, s_auto, s_segment, upper(s_single), upper(s_repeat),
   upper(s_auto), upper(s_segment), s_invalid}

\* counts around the ends lo and hi of a range, in thousandths: the whole
\* numbers within Margin of each end and the halves next to it
CountAround(lo, hi) ==
  {1000 * i : i \in ((lo - Margin)..(lo + Margin)) \cup ((hi - Margin)..(hi + Margin))}
    \cup {1000 * i + 500 : i \in {lo - 1, lo, hi - 1, hi}}

\* powers in thousandths of a dBm for set_power_range: whole tens, and
\* values at and next to the middle between two tens, below, within and
\* above -110..30
PowerRanges ==
  {10000 * t : t \in {-12, -11, 0, 3, 4}}
    \cup {10000 * t + 5000 + d : t \in {-13, -12, -11, -1, 0, 1, 2, 3}, d \in (-Margin)..Margin}

\* channel numbers around the channels 1..4
Channels == (1 - Margin)..(4 + Margin)

\* frequencies around the bounds lo and hi
FreqAround(lo, hi) ==
  {<<lo[1], r>> : r \in (lo[2] - Margin)..(lo[2] + Margin)}
    \cup {<<hi[1], r>> : r \in 0..Margin}
    \cup {<<hi[1] - 1, 1000000000 - k>> : k \in 1..Margin}
    \cup {<<(lo[1] + hi[1]) \div 2, 0>>}


(***************************************************************************)
(* The calls: one action per method, for a single caller.                  *)
(***************************************************************************)
\* length of the longest trace the instrument replies
MaxTrace == 3

\* the methods of Lasers/Santec.py, class TSL710
TSL710_calls ==
  /\ cls \in {"Santec.TSL710"}
  /\ \/ \E reply \in Telemetry :
          Call("get_wavelength", NoArg, TSL710_get_wavelength(self, reply))
     \/ \E v \in Around(self.min_wl, self.max_wl) :
          Call("set_wavelength", NumArg(v), TSL710_set_wavelength(self, v))
     \/ \E reply \in Telemetry :
          Call("get_wav_sweep_start", NoArg, TSL710_get_wav_sweep_start(self, reply))
     \/ \E v \in Around(self.min_wl, self.max_wl) :
          Call("set_wav_sweep_start", NumArg(v), TSL710_set_wav_sweep_start(self, v))
     \/ \E reply \in Telemetry :
          Call("get_wav_sweep_stop", NoArg, TSL710_get_wav_sweep_stop(self, reply))
     \/ \E v \in Around(self.min_wl, self.max_wl) :
          Call("set_wav_sweep_stop", NumArg(v), TSL710_set_wav_sweep_stop(self, v))
     \/ \E reply \in Telemetry :
          Call("get_wave_sweep_speed", NoArg, TSL710_get_wave_sweep_speed(self, reply))
     \/ \E v \in Around(self.min_spd, self.max_spd) :
          Call("set_wave_sweep_speed", NumArg(v), TSL710_set_wave_sweep_speed(self, v))
     \/ \E reply \in Telemetry :
          Call("get_wave_sweep_delay", NoArg, TSL710_get_wave_sweep_delay(self, reply))
     \/ \E v \in Around(self.min_del, self.max_del) :
          Call("set_wave_sweep_delay", NumArg(v), TSL710_set_wave_sweep_delay(self, v))
     \/ \E reply \in Telemetry :
          Call("get_wave_sweep_cycles", NoArg, TSL710_get_wave_sweep_cycles(self, reply))
     \/ \E cycles \in CountAround(0, 999) :
          Call("set_wave_sweep_cycles", NumArg(cycles),
               TSL710_set_wave_sweep_cycles(self, cycles))
     \/ \E reply \in Telemetry :
          Call("get_wave_sweep_mode", NoArg, TSL710_get_wave_sweep_mode(self, reply))
     \/ \E mode \in CountAround(0, 3) :
          Call("set_wave_sweep_mode", NumArg(mode), TSL710_set_wave_sweep_mode(self, mode))
     \/ Call("get_power_unit", NoArg, TSL710_get_power_unit(self, dev.pow_unit))
     \/ \E unit \in PowerUnitLabels :
          Call("set_power_unit", TxtArg(unit), TSL710_set_power_unit(self, unit))
     \/ \E unit \in {s_dBm, s_mW, s_W, s_invalid}, reply \in Telemetry :
          Call("get_power", TxtArg(unit), TSL710_get_power(self, unit, reply))
     \/ \E unit \in {s_dBm, s_mW, s_W, s_invalid},
           pow \in Around(self.min_pow_mW, self.max_pow_mW)
                      \cup Around(self.min_pow_dBm, self.max_pow_dBm) :
          Call("set_power", PowArg(pow, unit), TSL710_set_power(self, pow, unit))
     \/ Call("get_trig_out", NoArg, TSL710_get_trig_out(self, dev.trig_out))
     \/ \E trig \in TrigOutLabels :
          Call("set_trig_out", TxtArg(trig), TSL710_set_trig_out(self, trig))
     \/ Call("output_off", NoArg, TSL710_output_off(self))
     \/ Call("output_on", NoArg, TSL710_output_on(self))

\* the methods of Lasers/Santec2.py, class TSL
TSL_calls ==
  /\ cls \in Santec2Classes
  /\ \/ \E reply \in Telemetry :
          Call("get_wavelength", NoArg, TSL_get_wavelength(self, reply))
     \/ \E v \in Around(self.min_wl, self.max_wl) :
          Call("set_wavelength", NumArg(v), TSL_set_wavelength(self, v))
     \/ \E reply \in Telemetry :
          Call("get_wave_sweep_start", NoArg, TSL_get_wave_sweep_start(self, reply))
     \/ \E v \in Around(self.min_wl, self.max_wl) :
          Call("set_wave_sweep_start", NumArg(v), TSL_set_wave_sweep_start(self, v))
     \/ \E reply \in Telemetry :
          Call("get_wave_sweep_stop", NoArg, TSL_get_wave_sweep_stop(self, reply))
     \/ \E v \in Around(self.min_wl, self.max_wl) :
          Call("set_wave_sweep_stop", NumArg(v), TSL_set_wave_sweep_stop(self, v))
     \/ \E reply \in Telemetry :
          Call("get_wave_sweep_speed", NoArg, TSL_get_wave_sweep_speed(self, reply))
     \/ \E v \in Around(self.min_spd, self.max_spd) :
          Call("set_wave_sweep_speed", NumArg(v), TSL_set_wave_sweep_speed(self, v))
     \/ Call("start_sweep", NoArg, TSL_start_sweep(self))
     \/ Call("get_power_unit", NoArg, TSL_get_power_unit(self, dev.pow_unit))
     \/ \E unit \in PowerUnitLabels :
          Call("set_power_unit", TxtArg(unit), TSL_set_power_unit(self, unit))
     \/ \E reply \in Telemetry :
          Call("get_power", NoArg, TSL_get_power(self, reply))
     \/ \E pow \in Around(self.min_pow_mW, self.max_pow_mW)
                      \cup Around(self.min_pow_dBm, self.max_pow_dBm) :
          Call("set_power", NumArg(pow), TSL_set_power(self, pow))
     \/ Call("output_off", NoArg, TSL_output_off(self))
     \/ Call("output_on", NoArg, TSL_output_on(self))

\* the methods of SourceMeters/Keithley.py, class KeithleySourceMeter
KeithleySourceMeter_calls ==
  /\ cls \in {"Keithley2420"}
  /\ \/ \E reply \in WithTerminator(dev.source_mode) :
          Call("get_source_mode", NoArg, Keithley_get_source_mode(self, reply))
     \/ \E mode \in SourceModeLabels :
          Call("set_source_mode", TxtArg(mode), Keithley_set_source_mode(self, mode))
     \/ \E v \in Around(self.min_volt, self.max_volt) :
          Call("set_volt", NumArg(v), Keithley_set_volt(self, v))
     \/ \E v \in Around(self.min_curr, self.max_curr) :
          Call("set_curr", NumArg(v), Keithley_set_curr(self, v))
     \/ \E modeReply \in WithTerminator(dev.source_mode), limitReply \in Telemetry :
          CallGot("get_clamp_limit", NoArg,
                  Keithley_get_clamp_limit(self, modeReply, limitReply), <<modeReply>>)
     \/ \E modeReply \in WithTerminator(dev.source_mode),
           limit \in Around(self.min_curr, self.max_curr)
                        \cup Around(self.min_volt, self.max_volt) :
          CallGot("set_clamp_limit", NumArg(limit),
                  Keithley_set_clamp_limit(self, limit, modeReply), <<modeReply>>)
     \/ \E modeReply \in WithTerminator(dev.source_mode) :
          CallGot("reset_clamp", NoArg, Keithley_reset_clamp(self, modeReply),
                  <<modeReply>>)
     \/ \E reply \in Telemetry :
          Call("is_output_on", NoArg, Keithley_is_output_on(self, reply))
     \/ Call("output_on", NoArg, Keithley_output_on(self))
     \/ Call("output_off", NoArg, Keithley_output_off(self))
     \/ \E reply \in Telemetry :
          Call("meas_volt", NoArg, Keithley_meas_volt(self, reply))

\* the methods of OpticalAttenuators/HP.py, class HPAttenuator
HPAttenuator_calls ==
  /\ cls \in {"HP8156A"}
  /\ \/ \E reply \in Telemetry :
          Call("get_attenuation", NoArg, HP_get_attenuation(self, reply))
     \/ \E v \in Around(self.min_att, self.max_att) :
          Call("set_attenuation", NumArg(v), HP_set_attenuation(self, v))
     \/ \E reply \in Telemetry :
          Call("get_wavelength", NoArg, HP_get_wavelength(self, reply))
     \/ \E v \in Around(self.min_wl, self.max_wl) :
          Call("set_wavelength", NumArg(v), HP_set_wavelength(self, v))
     \/ Call("output_off", NoArg, HP_output_off(self))
     \/ Call("output_on", NoArg, HP_output_on(self))

\* the methods of SpectrumAnalyzers/Yokogawa.py, class YokogawaOSA
YokogawaOSA_calls ==
  /\ cls \in {"AQ6370D"}
  /\ \/ \E reply \in Telemetry :
          Call("get_wave_center", NoArg, Yokogawa_get_wave_center(self, reply))
     \/ \E v \in Around(self.min_wl, self.max_wl) :
          Call("set_wave_center", NumArg(v), Yokogawa_set_wave_center(self, v))
     \/ \E reply \in Telemetry :
          Call("get_wave_span", NoArg, Yokogawa_get_wave_span(self, reply))
     \/ \E v \in Around(self.min_span, self.max_span) :
          Call("set_wave_span", NumArg(v), Yokogawa_set_wave_span(self, v))
     \/ Call("get_sweep_mode", NoArg, Yokogawa_get_sweep_mode(self, dev.smode))
     \/ \E mode \in SweepModeLabels :
          Call("set_sweep_mode", TxtArg(mode), Yokogawa_set_sweep_mode(self, mode))
     \/ \E active \in WithTerminator(<<"T","R","A">>), n \in 0..MaxTrace :
          \E x \in [1..n -> Telemetry], y \in [1..n -> Telemetry] :
            Call("single_shot", NoArg, Yokogawa_single_shot(self, active, x, y))
     \/ Call("run_sweep", NoArg, Yokogawa_run_sweep(self))

\* the methods of OpticalPowerMeters/Keysight.py, class N7744A
N7744A_calls ==
  /\ cls \in {"N7744A"}
  /\ \/ Call("get_power_unit", NoArg, N7744A_get_power_unit(self, dev.pow_unit))
     \/ \E unit \in {s_dBm, s_W, s_mW, s_invalid}, raises \in BOOLEAN :
          Call("set_power_unit", TxtArg(unit), N7744A_set_power_unit(self, unit, raises))
     \/ \E ch \in Channels, reply \in Telemetry :
          Call("get_wavelength", NumArg(ch), N7744A_get_wavelength(self, ch, reply))
     \/ \E ch \in Channels, lam \in Around(self.min_wl, self.max_wl) :
          Call("set_wavelength", [num |-> <<lam, ch>>, txt |-> <<>>, unit |-> <<>>],
               N7744A_set_wavelength(self, lam, ch))
     \/ \E ch \in Channels, reply \in Telemetry :
          Call("meas_power", NumArg(ch), N7744A_meas_power(self, ch, reply))

\* the methods of SignalAnalyzers/Keysight.py, class KeysightSA
KeysightSA_calls ==
  /\ cls \in {"N9010A"}
  /\ \/ \E reply \in Telemetry :
          Call("get_center_freq", NoArg, KeysightSA_get_center_freq(self, reply))
     \/ \E reply \in Telemetry :
          Call("get_freq_start", NoArg, KeysightSA_get_freq_start(self, reply))
     \/ \E reply \in Telemetry :
          Call("get_freq_stop", NoArg, KeysightSA_get_freq_stop(self, reply))
     \/ \E freq \in FreqAround(self.min_freq, self.max_freq) :
          Call("set_center_freq", [num |-> freq, txt |-> <<>>, unit |-> <<>>],
               KeysightSA_set_center_freq(self, freq))
     \/ \E freq \in FreqAround(self.min_freq, self.max_freq) :
          Call("set_freq_start", [num |-> freq, txt |-> <<>>, unit |-> <<>>],
               KeysightSA_set_freq_start(self, freq))
     \/ \E freq \in FreqAround(self.min_freq, self.max_freq) :
          Call("set_freq_stop", [num |-> freq, txt |-> <<>>, unit |-> <<>>],
               KeysightSA_set_freq_stop(self, freq))
     \/ \E count \in {1, 100} :
          Call("averaging", NumArg(count), KeysightSA_averaging(self, count))
     \/ \E bord \in WithTerminator(dev.bord), n \in 0..MaxTrace,
           f1 \in Telemetry, f2 \in Telemetry :
          \E trace \in [1..n -> Telemetry] :
            CallGot("get_trace", NoArg,
                    KeysightSA_get_trace(self, bord, trace, f1, f2), <<f1, f2>>)

\* the methods of MeasurementSystems/Agilent.py, class AgilentLaser
AgilentLaser_calls ==
  /\ cls \in {"Agilent81689A"}
  /\ \/ Call("get_power_unit", NoArg, AgilentLaser_get_power_unit(self, dev.pow_unit))
     \/ \E unit \in {s_dBm, s_W, s_mW, lower(s_dBm), s_invalid} :
          Call("set_power_unit", TxtArg(unit), AgilentLaser_set_power_unit(self, unit))
     \/ \E reply \in Telemetry :
          Call("get_wavelength", NoArg, AgilentLaser_get_wavelength(self, reply))
     \/ \E v \in Around(self.min_wl, self.max_wl) :
          Call("set_wavelength", NumArg(v), AgilentLaser_set_wavelength(self, v))
     \/ \E reply \in Telemetry :
          Call("get_wave_sweep_start", NoArg, AgilentLaser_get_wave_sweep_start(self, reply))
     \/ \E v \in Around(self.min_wl, self.max_wl) :
          Call("set_wave_sweep_start", NumArg(v), AgilentLaser_set_wave_sweep_start(self, v))
     \/ \E reply \in Telemetry :
          Call("get_wave_sweep_stop", NoArg, AgilentLaser_get_wave_sweep_stop(self, reply))
     \/ \E v \in Around(self.min_wl, self.max_wl) :
          Call("set_wave_sweep_stop", NumArg(v), AgilentLaser_set_wave_sweep_stop(self, v))
     \/ \E reply \in Telemetry :
          Call("get_power", NoArg, AgilentLaser_get_power(self, reply))
     \/ \E pow \in Around(self.min_pow_mW, self.max_pow_mW)
                      \cup Around(self.min_pow_dBm, self.max_pow_dBm) :
          Call("set_power", NumArg(pow), AgilentLaser_set_power(self, pow))
     \/ Call("start_sweep", NoArg, AgilentLaser_start_sweep(self))
     \/ \E conf \in {s_dis, s_loop, upper(s_loop), s_invalid} :
          Call("set_trig_config", TxtArg(conf), AgilentMainframe_set_trig_config(self, conf))

\* the methods of MeasurementSystems/Agilent.py, class AgilentPowerMeter
AgilentPowerMeter_calls ==
  /\ cls \in {"Agilent81634B"}
  /\ \/ Call("get_power_unit", NoArg, AgilentPowerMeter_get_power_unit(self, dev.pow_unit))
     \/ \E unit \in {s_dBm, s_W, s_mW, lower(s_dBm), s_invalid} :
          Call("set_power_unit", TxtArg(unit), AgilentPowerMeter_set_power_unit(self, unit))
     \/ \E reply \in Telemetry :
          Call("get_wavelength", NoArg, AgilentPowerMeter_get_wavelength(self, reply))
     \/ \E v \in Around(self.min_wl, self.max_wl) :
          Call("set_wavelength", NumArg(v), AgilentPowerMeter_set_wavelength(self, v))
     \/ \E reply \in Telemetry :
          Call("measure_power", NoArg, AgilentPowerMeter_measure_power(self, reply))
     \/ \E power \in PowerRanges :
          Call("set_power_range", NumArg(power),
               AgilentPowerMeter_set_power_range(self, power))
     \/ \E conf \in {s_dis, s_loop, upper(s_loop), s_invalid} :
          Call("set_trig_config", TxtArg(conf), AgilentMainframe_set_trig_config(self, conf))

Next ==
  \/ TSL710_calls
  \/ TSL_calls
  \/ KeithleySourceMeter_calls
  \/ HPAttenuator_calls
  \/ YokogawaOSA_calls
  \/ N7744A_calls
  \/ KeysightSA_calls
  \/ AgilentLaser_calls
  \/ AgilentPowerMeter_calls

Spec == Init /\ [][Next]_vars

\* the program on a transport whose calls may raise
SpecFail == InitFail /\ [][Next]_vars


(***************************************************************************)
(* Several callers on one Keithley binding.  A clamp method is two         *)
(* transport calls, the source-mode query and the clamp command, and a     *)
(* caller may be between the two while another caller runs.  With          *)
(* lock.used the callers keep to mutual exclusion: a method starts only    *)
(* when no other caller is inside one.                                     *)
(***************************************************************************)
ClampMethods == {"get_clamp_limit", "set_clamp_limit", "reset_clamp"}

\* the measure type a clamp command is addressed to
Target(c) ==
  IF c.head \in {":curr:prot:level?", ":curr:prot ", ":curr:prot def"}
  THEN "curr"
  ELSE "volt"

\* the whole clamp method oper, given the reply to its source-mode query
ClampOutcome(obj, oper, reply, limit) ==
  IF oper = "get_clamp_limit" THEN Keithley_get_clamp_limit(obj, reply, 0)
  ELSE IF oper = "set_clamp_limit" THEN Keithley_set_clamp_limit(obj, limit, reply)
  ELSE Keithley_reset_clamp(obj, reply)

InitConc ==
  /\ cls = "Keithley2420"
  /\ dev \in DevStates(cls)
  /\ \E idn \in {Identity(cls)} :
       LET c == Keithley2420_init(idn) IN
       /\ self = c.self
       /\ wire = c.wire
       /\ res = c.res
       /\ printed = c.printed
       /\ got = <<idn>>
  /\ op = "__init__"
  /\ arg = NoArg
  /\ prev = ""
  /\ callers = [c \in Callers |-> IdleCaller]
  /\ lock \in [used : BOOLEAN, holder : {0}]
  /\ link = Reliable

\* caller c may start a method
CanStart(c) ==
  /\ callers[c].pc = "idle"
  /\ lock.used => lock.holder = 0

\* caller c runs set_source_mode, a single transport call
Conc_set_source_mode(c) ==
  /\ CanStart(c)
  /\ \E mode \in SourceModeLabels :
       LET out == Keithley_set_source_mode(self, mode) IN
       dev' = DevApply(dev, out.wire)
  /\ UNCHANGED <<cls, self, op, arg, wire, res, prev, got, printed, callers, lock, link>>

\* caller c enters a clamp method: the source-mode query and its reply
Conc_clamp_query(c) ==
  /\ CanStart(c)
  /\ \E oper \in ClampMethods, reply \in WithTerminator(dev.source_mode) :
       callers' = [callers EXCEPT ![c] =
                     [@ EXCEPT !.pc = "queried", !.oper = oper, !.mode = reply]]
  /\ lock' = [lock EXCEPT !.holder = IF lock.used THEN c ELSE 0]
  /\ UNCHANGED <<cls, self, dev, op, arg, wire, res, prev, got, printed, link>>

\* caller c finishes its clamp method: the command after the query goes to
\* the measure type picked for the mode that was replied; meas and at record
\* that measure type and the mode the instrument is in when it is sent
Conc_clamp_send(c) ==
  /\ callers[c].pc = "queried"
  /\ \E limit \in {0, 1} :
       LET out == ClampOutcome(self, callers[c].oper, callers[c].mode, limit)
           sent == Len(out.wire) = 2
       IN /\ callers' = [callers EXCEPT ![c] =
                           [@ EXCEPT !.pc = "idle",
                                     !.meas = IF sent THEN Target(out.wire[2]) ELSE "",
                                     !.at = IF sent THEN dev.source_mode ELSE <<>>]]
          /\ dev' = DevApply(dev, out.wire)
  /\ lock' = [lock EXCEPT !.holder = 0]
  /\ UNCHANGED <<cls, self, op, arg, wire, res, prev, got, printed, link>>

NextConc ==
  \E c \in Callers :
    \/ Conc_set_source_mode(c)
    \/ Conc_clamp_query(c)
    \/ Conc_clamp_send(c)

SpecConc == InitConc /\ [][NextConc]_vars

(***************************************************************************)
(* Properties.                                                             *)
(***************************************************************************)
\* the calls of wire that are writes
Writes(w) == SelectSeq(w, LAMBDA c : c.kind = "write")

SantecClasses == {"Santec.TSL710"} \cup Santec2Classes

\* the bounded numeric setters of the Santec wrappers as <<classes, method,
\* command, lower bound, upper bound>>, the wavelength bounds being 1480 nm
\* and 1640 nm
SantecBoundedSetters ==
  {<<{"Santec.TSL710"}, "set_wavelength", ":wav ", 1480000, 1640000>>,
   <<{"Santec.TSL710"}, "set_wav_sweep_start", ":wav:swe:start ", 1480000, 1640000>>,
   <<{"Santec.TSL710"}, "set_wav_sweep_stop", ":wav:swe:stop ", 1480000, 1640000>>,
   <<{"Santec.TSL710"}, "set_wave_sweep_speed", ":wav:swe:spe ", 500, 100000>>,
   <<{"Santec.TSL710"}, "set_wave_sweep_delay", ":wav:swe:del ", 0, 999900>>,
   <<Santec2Classes, "set_wavelength", ":wav ", 1480000, 1640000>>,
   <<Santec2Classes, "set_wave_sweep_start", ":wav:swe:start ", 1480000, 1640000>>,
   <<Santec2Classes, "set_wave_sweep_stop", ":wav:swe:stop ", 1480000, 1640000>>,
   <<{"Santec2.TSL710"}, "set_wave_sweep_speed", ":wav:swe:spe ", 500, 100000>>,
   <<{"Santec2.TSL770"}, "set_wave_sweep_speed", ":wav:swe:spe ", 500, 200000>>}

\* C1: a bounded numeric setter of the Santec wrappers returns normally and
\* writes its command with the value iff min <= v <= max, both bounds
\* included; any other value raises ValueError and nothing is written
C1_SantecSetterInclusive ==
  \A t \in SantecBoundedSetters :
    (cls \in t[1] /\ op = t[2]) =>
      LET v == arg.num[1] IN
      IF t[4] <= v /\ v <= t[5]
      THEN res.status = "ok" /\ wire = <<Write(t[3], <<v>>, <<>>)>>
      ELSE res.status = "ValueError" /\ wire = <<>>

\* C1 witness: the upper bound 1640 nm itself was accepted and written
C1_Witness ==
  /\ cls = "Santec.TSL710"
  /\ op = "set_wavelength"
  /\ arg.num = <<1640000>>
  /\ res.status = "ok"
  /\ wire = <<Write(":wav ", <<1640000>>, <<>>)>>


\* the declared bounds <<lo, hi>> the value of the last call is subject to,
\* as a set that is empty when the last call is no bounded numeric setter
DeclaredBounds ==
  IF \E t \in SantecBoundedSetters : cls \in t[1] /\ op = t[2]
  THEN {<<t[4], t[5]>> : t \in {u \in SantecBoundedSetters : cls \in u[1] /\ op = u[2]}}
  ELSE IF cls = "Santec.TSL710" /\ op = "set_power" /\ arg.unit = s_mW
  THEN {<<self.min_pow_mW, self.max_pow_mW>>}
  ELSE IF cls = "Santec.TSL710" /\ op = "set_power" /\ arg.unit = s_dBm
  THEN {<<self.min_pow_dBm, self.max_pow_dBm>>}
  ELSE IF cls \in Santec2Classes /\ op = "set_power"
  THEN IF self.pow_unit = s_mW
       THEN {<<self.min_pow_mW, self.max_pow_mW>>}
       ELSE {<<self.min_pow_dBm, self.max_pow_dBm>>}
  ELSE IF cls = "Keithley2420" /\ op = "set_volt"
  THEN {<<self.min_volt, self.max_volt>>}
  ELSE IF cls = "Keithley2420" /\ op = "set_curr"
  THEN {<<self.min_curr, self.max_curr>>}
  ELSE IF cls = "Keithley2420" /\ op = "set_clamp_limit"
  THEN IF dev.source_mode = s_VOLT
       THEN {<<self.min_curr, self.max_curr>>}
       ELSE {<<self.min_volt, self.max_volt>>}
  ELSE IF cls = "HP8156A" /\ op = "set_attenuation"
  THEN {<<self.min_att, self.max_att>>}
  ELSE IF cls \in {"HP8156A"} \cup AgilentClasses /\ op = "set_wavelength"
  THEN {<<self.min_wl, self.max_wl>>}
  ELSE IF cls = "AQ6370D" /\ op = "set_wave_center"
  THEN {<<self.min_wl, self.max_wl>>}
  ELSE IF cls = "AQ6370D" /\ op = "set_wave_span"
  THEN {<<self.min_span, self.max_span>>}
  ELSE {}

\* the last call is a bounded numeric setter whose value lies outside the
\* declared bounds
OutOfDeclaredBounds ==
  \/ \E b \in DeclaredBounds : arg.num[1] < b[1] \/ arg.num[1] > b[2]
  \/ /\ cls = "N9010A"
     /\ op \in {"set_center_freq", "set_freq_start", "set_freq_stop"}
     /\ (FreqLess(arg.num, self.min_freq) \/ FreqLess(self.max_freq, arg.num))

\* C2: a bounded numeric setter called with a value outside the declared
\* bounds writes nothing to the transport
C2_NoWriteWhenOutOfBounds ==
  OutOfDeclaredBounds => Writes(wire) = <<>>

\* C3: Keithley2420.set_clamp_limit raises ValueError and writes no ':prot'
\* command when limit is outside [-3.15, 3.15] in voltage source mode or
\* outside [-63, 63] in current source mode
C3_ClampLimitRejected ==
  (cls = "Keithley2420" /\ op = "set_clamp_limit") =>
    LET limit == arg.num[1]
        out == IF dev.source_mode = s_VOLT
               THEN limit < -3150 \/ limit > 3150
               ELSE limit < -63000 \/ limit > 63000
    IN out => /\ res.status = "ValueError"
              /\ \A i \in 1..Len(wire) :
                   wire[i].head \notin {":curr:prot ", ":volt:prot "}

\* C4: a get_clamp_limit that directly follows a successful set_source_mode
\* issues the current-limit query when the mode set was voltage, in any
\* spelling, and the voltage-limit query when it was current
C4_ClampFollowsSourceMode ==
  [][(cls = "Keithley2420" /\ op = "set_source_mode" /\ res.status = "ok"
        /\ op' = "get_clamp_limit")
     => /\ Len(wire') = 2
        /\ wire'[2] = Query(IF lower(arg.txt) = s_volt
                            THEN ":curr:prot:level?"
                            ELSE ":volt:prot:level?")]_vars

\* C4 witness: get_clamp_limit right after set_source_mode put the
\* instrument in voltage mode, and the current-limit query went out
C4_Witness ==
  /\ cls = "Keithley2420"
  /\ prev = "set_source_mode"
  /\ op = "get_clamp_limit"
  /\ dev.source_mode = s_VOLT
  /\ wire = <<Query(":source:func:mode?"), Query(":curr:prot:level?")>>

\* the methods that are a sequence of transport calls by construction, with
\* the numbers of calls of an invocation that passes validation
Composite ==
  {<<{"Santec.TSL710"}, "get_power", {2}>>,
   <<{"Santec.TSL710"}, "set_power", {2}>>,
   <<{"Keithley2420"}, "get_clamp_limit", {2}>>,
   <<{"Keithley2420"}, "set_clamp_limit", {2}>>,
   <<{"Keithley2420"}, "reset_clamp", {2}>>,
   <<{"N9010A"}, "averaging", {2}>>,
   <<{"N9010A"}, "get_trace", {5, 6}>>,
   <<{"AQ6370D"}, "single_shot", {4}>>,
   <<{"Agilent81634B"}, "measure_power", {2}>>}

IsComposite == \E t \in Composite : cls \in t[1] /\ op = t[2]

\* the validation of the last call failed: it raised ValueError, or returned
\* the ValueError as the methods that return it do
Rejected ==
  res.status = "ValueError" \/ (res.status = "ok" /\ res.txt = <<"ValueError">>)

Misrouted(c) ==
  /\ callers[c].meas # ""
  /\ \/ callers[c].at = s_VOLT /\ callers[c].meas # "curr"
     \/ callers[c].at = s_CURR /\ callers[c].meas # "volt"

\* C6: when the callers keep to mutual exclusion, no clamp command is sent
\* to the measure type that is not complementary to the instrument's source
\* mode at that moment (without it, C6_Witness is reachable)
C6_SerializedNeverMisroutes ==
  lock.used => \A c \in Callers : ~Misrouted(c)

\* C6 witness: without mutual exclusion a caller has sent a clamp command to
\* the wrong measure type, the mode having changed after its query
C6_Witness ==
  /\ ~lock.used
  /\ \E c \in Callers :
       /\ Misrouted(c)
       /\ rstrip(callers[c].mode, {"\n"}) # callers[c].at


\* C7: round trip of the Santec enumerated settings.  A table label written
\* by the setter is the label the getter returns next, the instrument
\* returning the written code; and for a code of the table, the label the
\* getter returned is written back by the setter as that code.
C7_SantecRoundTrip ==
  [][/\ (cls = "Santec.TSL710" /\ op = "set_trig_out" /\ res.status = "ok"
           /\ arg.txt \in {s_none, s_stop, s_start, s_step}
           /\ op' = "get_trig_out")
        => (res'.status = "ok" /\ res'.txt = arg.txt)
     /\ (cls \in SantecClasses /\ op = "set_power_unit" /\ res.status = "ok"
           /\ op' = "get_power_unit")
        => (res'.status = "ok" /\ res'.txt = arg.txt)
     /\ (cls = "Santec.TSL710" /\ op = "get_trig_out" /\ dev.trig_out \in 0..3
           /\ op' = "set_trig_out" /\ arg'.txt = res.txt)
        => wire' = <<Write(":trig:outp ", <<dev.trig_out>>, <<>>)>>
     /\ (cls \in SantecClasses /\ op = "get_power_unit" /\ dev.pow_unit \in 0..1
           /\ op' = "set_power_unit" /\ arg'.txt = res.txt)
        => wire' = <<Write(":pow:unit ", <<dev.pow_unit>>, <<>>)>>]_vars

\* C7 witness: get_trig_out right after set_trig_out('start') returned 'start'
C7_Witness ==
  /\ cls = "Santec.TSL710"
  /\ prev = "set_trig_out"
  /\ op = "get_trig_out"
  /\ dev.trig_out = 2
  /\ res = OkTxt(s_start)

\* C8: a getter that translates a returned code into a label raises when the
\* code is not in the table of the setting
C8_UnknownCodeRaises ==
  /\ (cls \in SantecClasses \cup {"N7744A"} \cup AgilentClasses
        /\ op = "get_power_unit" /\ dev.pow_unit \notin {0, 1})
     => res.status # "ok"
  /\ (cls = "Santec.TSL710" /\ op = "get_trig_out" /\ dev.trig_out \notin 0..3)
     => res.status # "ok"
  /\ (cls = "AQ6370D" /\ op = "get_sweep_mode" /\ dev.smode \notin 1..4)
     => res.status # "ok"

\* C9: Santec set_power_unit writes ':pow:unit 0' for 'dBm' and ':pow:unit 1'
\* for 'mW'; any other label raises ValueError, nothing is written and the
\* cached pow_unit of a Santec2 object stays as it was
C9_SetPowerUnit ==
  [][(cls \in SantecClasses /\ op' = "set_power_unit")
     => IF arg'.txt = s_dBm
        THEN res'.status = "ok" /\ wire' = <<Write(":pow:unit ", <<0>>, <<>>)>>
        ELSE IF arg'.txt = s_mW
        THEN res'.status = "ok" /\ wire' = <<Write(":pow:unit ", <<1>>, <<>>)>>
        ELSE /\ res'.status = "ValueError"
             /\ wire' = <<>>
             /\ cls \in Santec2Classes => self'.pow_unit = self.pow_unit]_vars

\* C9 witness: a Santec2 object cached 'mW', and set_power_unit of another
\* label was rejected with nothing written
C9_Witness ==
  /\ cls \in Santec2Classes
  /\ op = "set_power_unit"
  /\ arg.txt = s_invalid
  /\ res.status = "ValueError"
  /\ wire = <<>>
  /\ self.pow_unit = s_mW

\* C10: an enumerated-setting setter accepts every upper/lower-case spelling
\* of a table label and transmits the canonical code or label for it
C10_CaseInsensitiveCanonical ==
  /\ (cls \in SantecClasses /\ op = "set_power_unit"
        /\ lower(arg.txt) \in {lower(s_dBm), lower(s_mW)})
     => /\ res.status = "ok"
        /\ wire = <<Write(":pow:unit ",
                          <<IF lower(arg.txt) = lower(s_dBm) THEN 0 ELSE 1>>, <<>>)>>
  /\ (cls = "Santec.TSL710" /\ op = "set_trig_out"
        /\ lower(arg.txt) \in {s_none, s_stop, s_start, s_step})
     => /\ res.status = "ok"
        /\ wire = <<Write(":trig:outp ",
                          <<CHOOSE c \in 0..3 :
                              <<s_none, s_stop, s_start, s_step>>[c + 1] = lower(arg.txt)>>,
                          <<>>)>>
  /\ (cls = "Keithley2420" /\ op = "set_source_mode"
        /\ lower(arg.txt) \in {s_volt, s_curr})
     => /\ res.status = "ok"
        /\ wire = <<Write(":source:func:mode ", <<>>, lower(arg.txt))>>
  /\ (cls = "AQ6370D" /\ op = "set_sweep_mode"
        /\ lower(arg.txt) \in {s_single, s_repeat, s_auto, s_segment})
     => /\ res.status = "ok"
        /\ wire = <<Write(":init:smode ", <<>>, lower(arg.txt))>>


\* the fraction f is the number v
FracIs(f, v) == f[1] = v * f[2]

\* C11: the frequency axis get_trace returns has as many entries as the
\* trace; for a trace of one sample it is [start]; for a longer trace its
\* first entry is the queried start frequency, its last entry the queried
\* stop frequency and consecutive entries differ by (stop - start)/(n - 1);
\* start=1500, stop=1600, n=5 gives [1500, 1525, 1550, 1575, 1600]
C11_TraceAxis ==
  /\ (cls = "N9010A" /\ op = "get_trace") =>
       LET n == Len(res.num)
           ax == res.axis
           start == got[1]
           stop == got[2]
       IN /\ res.status = "ok"
          /\ Len(ax) = n
          /\ n = 1 => (Len(ax) = 1 /\ FracIs(ax[1], start))
          /\ n >= 2 =>
               /\ FracIs(ax[1], start)
               /\ FracIs(ax[n], stop)
               /\ \A i \in 1..(n - 1) :
                    \* (ax[i+1] - ax[i]) * (n - 1) = stop - start
                    (ax[i + 1][1] * ax[i][2] - ax[i][1] * ax[i + 1][2]) * (n - 1)
                      = (stop - start) * ax[i][2] * ax[i + 1][2]
  /\ LET ex == linspace(1500, 1600, 5) IN
       /\ Len(ex) = 5
       /\ \A i \in 1..5 : FracIs(ex[i], <<1500, 1525, 1550, 1575, 1600>>[i])

\* C11 witness: a trace of three samples between start 0 and stop 1, whose
\* axis has the midpoint 1/2 as its second entry
C11_Witness ==
  /\ cls = "N9010A"
  /\ op = "get_trace"
  /\ Len(res.num) = 3
  /\ got = <<0, 1>>
  /\ Len(res.axis) = 3
  /\ res.axis[2][1] * 2 = res.axis[2][2]


\* C12: TSL710.set_wave_sweep_cycles writes its command iff cycles is a whole
\* number with 0 <= cycles <= 999; a value that is not whole and a value
\* outside 0..999 raise ValueError and nothing is written
C12_SweepCyclesWhole ==
  (cls = "Santec.TSL710" /\ op = "set_wave_sweep_cycles") =>
    LET c == arg.num[1] IN
    IF c % 1000 = 0 /\ 0 <= c /\ c <= 999000
    THEN res.status = "ok" /\ wire = <<Write(":wav:swe:cycl ", <<c>>, <<>>)>>
    ELSE res.status = "ValueError" /\ wire = <<>>

\* C12 witness: 998.5 cycles, inside 0..999 but not whole, was rejected
C12_Witness ==
  /\ cls = "Santec.TSL710"
  /\ op = "set_wave_sweep_cycles"
  /\ arg.num = <<998500>>
  /\ res.status = "ValueError"
  /\ wire = <<>>


\* C13: whenever the vendor field or the model field of an identification
\* reply differs from the identity of the class, the constructor prints a
\* warning, and construction completes in every case
C13_MismatchWarned ==
  op = "__init__" =>
    /\ res.status = "ok"
    /\ got[1] # Identity(cls) => printed # <<>>
    /\ (cls \in AgilentClasses /\ got[2] # ModuleIdentity(cls)) => printed # <<>>


\* C14: AgilentLaser.set_wave_sweep_start and set_wave_sweep_stop raise
\* ValueError and write nothing whenever lam < min_wl or lam > max_wl
C14_SweepLimitsRaise ==
  (cls = "Agilent81689A" /\ op \in {"set_wave_sweep_start", "set_wave_sweep_stop"}
     /\ (arg.num[1] < self.min_wl \/ arg.num[1] > self.max_wl))
  => (res.status = "ValueError" /\ wire = <<>>)


\* C15: N7744A.get_wavelength, set_wavelength and meas_power raise
\* ValueError, with no transport call, whenever ch is not one of 1, 2, 3, 4,
\* and set_wavelength also when lam is outside [min_wl, max_wl]
C15_ChannelChecked ==
  /\ (cls = "N7744A" /\ op \in {"get_wavelength", "meas_power"}
        /\ arg.num[1] \notin 1..4)
     => (res.status = "ValueError" /\ wire = <<>>)
  /\ (cls = "N7744A" /\ op = "set_wavelength"
        /\ (arg.num[2] \notin 1..4
              \/ arg.num[1] < self.min_wl \/ arg.num[1] > self.max_wl))
     => (res.status = "ValueError" /\ wire = <<>>)


\* C16: set_power of an Agilent laser module with declared power bounds
\* writes the power command iff pow lies within the bounds declared for the
\* cached power unit (the dBm bounds for 'dBm', the mW bounds for 'W'), and
\* is rejected otherwise
C16_AgilentPowerBounded ==
  (cls = "Agilent81689A" /\ op = "set_power") =>
    LET pow == arg.num[1]
        lo == IF self.pow_unit = s_dBm THEN self.min_pow_dBm ELSE self.min_pow_mW
        hi == IF self.pow_unit = s_dBm THEN self.max_pow_dBm ELSE self.max_pow_mW
    IN IF lo <= pow /\ pow <= hi
       THEN Len(Writes(wire)) = 1
       ELSE Rejected /\ wire = <<>>


\* C17: every range or enumeration error a setter raises carries the name of
\* the parameter, the value or label the caller supplied, and the accepted
\* bounds or labels
C17_ErrorsCarryContext ==
  res.status = "ValueError" =>
    /\ res.msg.param # ""
    /\ Len(res.msg.given) = 1
    /\ Len(res.msg.accepted) > 0


\* the bindings that cache a power unit
CachingClasses == Santec2Classes \cup AgilentClasses

\* C18: after construction the cached pow_unit of a Santec2 or Agilent
\* binding changes only in a set_power_unit call that returns normally, and
\* then to the label that call was given; every other call, a rejected
\* set_power_unit included, leaves it as it was
C18_PowUnitFrame ==
  [][(cls \in CachingClasses) =>
       (\/ self'.pow_unit = self.pow_unit
        \/ (op' = "set_power_unit" /\ res'.status = "ok"
              /\ self'.pow_unit = arg'.txt))]_vars

\* C18 witness: a set_power after a set_power_unit that returned normally,
\* with the unit of that call still cached
C18_Witness ==
  /\ cls \in CachingClasses
  /\ prev = "set_power_unit"
  /\ op = "set_power"
  /\ self.pow_unit \in {s_mW, s_W}
  /\ dev.pow_unit = 1


\* the declared bound pairs of a class, as the names of the two fields
BoundPairs(c) ==
  IF c = "Santec.TSL710"
  THEN {<<"min_wl", "max_wl">>, <<"min_spd", "max_spd">>, <<"min_del", "max_del">>,
        <<"min_pow_mW", "max_pow_mW">>, <<"min_pow_dBm", "max_pow_dBm">>}
  ELSE IF c \in Santec2Classes
  THEN {<<"min_wl", "max_wl">>, <<"min_spd", "max_spd">>,
        <<"min_pow_mW", "max_pow_mW">>, <<"min_pow_dBm", "max_pow_dBm">>}
  ELSE IF c = "Keithley2420"
  THEN {<<"min_volt", "max_volt">>, <<"min_curr", "max_curr">>}
  ELSE IF c = "HP8156A" THEN {<<"min_att", "max_att">>, <<"min_wl", "max_wl">>}
  ELSE IF c = "AQ6370D" THEN {<<"min_wl", "max_wl">>, <<"min_span", "max_span">>}
  ELSE IF c = "N9010A" THEN {<<"min_freq", "max_freq">>}
  ELSE IF c = "Agilent81689A"
  THEN {<<"min_wl", "max_wl">>, <<"min_pow_mW", "max_pow_mW">>,
        <<"min_pow_dBm", "max_pow_dBm">>}
  ELSE {<<"min_wl", "max_wl">>}

ProtHeads ==
  {":curr:prot:level?", ":curr:prot ", ":curr:prot def",
   ":volt:prot:level?", ":volt:prot ", ":volt:prot def"}

C20_ClampWitness ==
  /\ op \in ClampMethods
  /\ link.failed = 1
  /\ wire = <<Query(":source:func:mode?")>>

\* C21: N7744A.set_power_unit('dBm') writes a command carrying the code 0
\* and set_power_unit('W') one carrying the code 1, after which the
\* instrument is in that unit, so that get_power_unit returns the label
\* that was set; any other label raises ValueError with no write
C21_UnitCodeTransmitted ==
  /\ [][(cls = "N7744A" /\ op' = "set_power_unit")
          => IF arg'.txt \in {s_dBm, s_W}
             THEN /\ res'.status = "ok"
                  /\ Len(wire') = 1
                  /\ wire'[1].num = <<IF arg'.txt = s_dBm THEN 0 ELSE 1>>
                  /\ dev'.pow_unit = IF arg'.txt = s_dBm THEN 0 ELSE 1
             ELSE res'.status = "ValueError" /\ wire' = <<>>]_vars
  /\ [][(cls = "N7744A" /\ op = "set_power_unit" /\ res.status = "ok"
           /\ op' = "get_power_unit")
          => res'.txt = arg.txt]_vars

\* C22: each clamp method of the sourcemeter makes two transport calls, the
\* source-mode query first and once only, the ':prot' command second, and
\* the command is addressed to the current limit when the query replied
\* VOLT and to the voltage limit when it replied CURR
C22_ClampQueryFirst ==
  (cls = "Keithley2420" /\ op \in ClampMethods)
    => /\ Len(wire) = 2
       /\ wire[1] = Query(":source:func:mode?")
       /\ wire[2].head \in ProtHeads
       /\ Len(got) = 1
       /\ (rstrip(got[1], {"\n"}) = s_VOLT => Target(wire[2]) = "curr")
       /\ (rstrip(got[1], {"\n"}) = s_CURR => Target(wire[2]) = "volt")

\* a set_clamp_limit on a current source whose reply came with its line
\* terminator: the voltage limit was written after the query
C22_Witness ==
  /\ cls = "Keithley2420"
  /\ op = "set_clamp_limit"
  /\ got = <<s_CURR \o <<"\n">>>>
  /\ Len(wire) = 2
  /\ wire[1].kind = "query"
  /\ wire[2].head = ":volt:prot "

\* C23: TSL710.set_wave_sweep_mode writes ':wav:swe:mod <mode>' iff mode
\* equals one of 0, 1, 2, 3; every other value, between two of them or
\* outside them, raises ValueError and nothing is written
C23_SweepModeEnumerated ==
  (cls = "Santec.TSL710" /\ op = "set_wave_sweep_mode") =>
    LET m == arg.num[1] IN
    IF m \in {0, 1000, 2000, 3000}
    THEN res.status = "ok" /\ wire = <<Write(":wav:swe:mod ", <<m>>, <<>>)>>
    ELSE res.status = "ValueError" /\ wire = <<>>

\* the mode 4, next above the accepted ones, was rejected
C23_Witness ==
  /\ cls = "Santec.TSL710"
  /\ op = "set_wave_sweep_mode"
  /\ arg.num = <<4000>>
  /\ res.status = "ValueError"
  /\ wire = <<>>

\* the mode 2.5, between two accepted ones, was rejected
C23_BetweenWitness ==
  /\ cls = "Santec.TSL710"
  /\ op = "set_wave_sweep_mode"
  /\ arg.num = <<2500>>
  /\ res.status = "ValueError"

\* C24: with a single caller and a transport that does not fail, the cached
\* pow_unit of a Santec2 binding is the unit the instrument is in, from
\* construction on and after every call: 'dBm' when the instrument is in the
\* unit of code 0 and 'mW' when it is in the unit of code 1
C24_CacheMirrorsInstrument ==
  cls \in Santec2Classes =>
    /\ dev.pow_unit = 0 => self.pow_unit = s_dBm
    /\ dev.pow_unit = 1 => self.pow_unit = s_mW

\* a binding constructed on an instrument in dBm, after a set_power_unit
\* ('mW') and a set_power_unit of a label that was rejected
C24_Witness ==
  /\ cls \in Santec2Classes
  /\ prev = "set_power_unit"
  /\ op = "set_power_unit"
  /\ res.status = "ValueError"
  /\ self.pow_unit = s_mW
  /\ dev.pow_unit = 1

\* a binding just constructed on an instrument in mW
C24_InitWitness ==
  /\ cls \in Santec2Classes
  /\ op = "__init__"
  /\ self.pow_unit = s_mW
  /\ dev.pow_unit = 1

\* what C25 says of a Santec2 set_power(pow) under the unit label u: the
\* command is written iff pow is within the bounds of u, and ValueError is
\* raised with nothing written otherwise
PowerCheckedIn(u, obj, pow, r, w) ==
  LET lo == IF u = s_mW THEN obj.min_pow_mW ELSE obj.min_pow_dBm
      hi == IF u = s_mW THEN obj.max_pow_mW ELSE obj.max_pow_dBm
  IN IF lo <= pow /\ pow <= hi
     THEN r.status = "ok" /\ w = <<Write(":pow ", <<pow>>, <<>>)>>
     ELSE r.status = "ValueError" /\ w = <<>>

\* C25: a Santec2 set_power(pow) is checked against the bounds of the cached
\* unit: called after a set_power_unit('mW') that returned normally it
\* writes ':pow <pow>' iff min_pow_mW <= pow <= max_pow_mW, after a
\* set_power_unit('dBm') iff min_pow_dBm <= pow <= max_pow_dBm, and it raises
\* ValueError with no write otherwise
C25_PowerBoundsFollowUnit ==
  /\ []((cls \in Santec2Classes /\ op = "set_power")
          => PowerCheckedIn(self.pow_unit, self, arg.num[1], res, wire))
  /\ [][(cls \in Santec2Classes /\ op = "set_power_unit" /\ res.status = "ok"
           /\ op' = "set_power")
          => PowerCheckedIn(arg.txt, self', arg'.num[1], res', wire')]_vars

\* right after set_power_unit('mW'), a pow just under min_pow_mW was
\* rejected; it is within the dBm bounds
C25_Witness ==
  /\ cls \in Santec2Classes
  /\ prev = "set_power_unit"
  /\ op = "set_power"
  /\ self.pow_unit = s_mW
  /\ arg.num = <<self.min_pow_mW - 1>>
  /\ self.min_pow_dBm <= arg.num[1]
  /\ arg.num[1] <= self.max_pow_dBm
  /\ res.status = "ValueError"
  /\ wire = <<>>

\* right after set_power_unit('dBm'), the same pow was written
C25_OrderWitness ==
  /\ cls \in Santec2Classes
  /\ prev = "set_power_unit"
  /\ op = "set_power"
  /\ self.pow_unit = s_dBm
  /\ arg.num = <<self.min_pow_mW - 1>>
  /\ res.status = "ok"
  /\ wire = <<Write(":pow ", arg.num, <<>>)>>

\* C26: whatever string the instrument replies to the source-mode query, the
\* three clamp methods address the same measure type: the current limit
\* exactly when the reply, its line terminator removed, is 'VOLT', and the
\* voltage limit for every other reply
C26_ClampRoutingAgrees ==
  /\ []((cls = "Keithley2420" /\ op \in ClampMethods)
          => Target(wire[2]) = IF rstrip(got[1], {"\n"}) = s_VOLT
                               THEN "curr" ELSE "volt")
  /\ [][(cls = "Keithley2420" /\ op \in ClampMethods /\ op' \in ClampMethods
           /\ rstrip(got[1], {"\n"}) = rstrip(got'[1], {"\n"}))
          => Target(wire[2]) = Target(wire'[2])]_vars

\* a reset_clamp on an instrument that replied neither VOLT nor CURR: the
\* voltage limit was addressed
C26_Witness ==
  /\ cls = "Keithley2420"
  /\ op = "reset_clamp"
  /\ got = <<s_MEM>>
  /\ wire = <<Query(":source:func:mode?"), Write(":volt:prot def", <<>>, <<>>)>>

\* C27: AgilentPowerMeter.set_power_range(power) returns normally and writes
\* one command whose value is a multiple of ten between -110 and 30: a ten
\* nearest to power, or -110 when that ten is below -110 and 30 when it is
\* above 30
C27_PowerRangeSnapped ==
  (cls = "Agilent81634B" /\ op = "set_power_range") =>
    /\ res.status = "ok"
    /\ Len(wire) = 1
    /\ wire[1].head = ":sens{slot}:pow:rang "
    /\ LET p == arg.num[1]
           w == wire[1].num[1]
       IN /\ w % 10000 = 0
          /\ -110000 <= w
          /\ w <= 30000
          /\ \E t \in -20..10 :
               LET r == 10000 * t IN
               /\ 2 * (r - p) <= 10000
               /\ 2 * (p - r) <= 10000
               /\ w = IF r < -110000 THEN -110000
                      ELSE IF r > 30000 THEN 30000 ELSE r

\* a power of 34.999 above the range, whose nearest ten is within it
C27_Witness ==
  /\ cls = "Agilent81634B"
  /\ op = "set_power_range"
  /\ arg.num = <<34999>>
  /\ wire[1].num = <<30000>>

\* a power of -115.001, whose nearest ten is below the range
C27_ClampWitness ==
  /\ cls = "Agilent81634B"
  /\ op = "set_power_range"
  /\ arg.num = <<-115001>>
  /\ wire[1].num = <<-110000>>

\* C28: the transport calls of KeysightSA.get_trace are, in this order, the
\* write ':form:data real,32', the byte-order query, the write
\* ':form:bord swap' iff the instrument reported NORM, the trace query, the
\* start-frequency query and the stop-frequency query; so the instrument's
\* byte order is SWAP when the trace query reaches it, whether it was NORM
\* or SWAP before
C28_TraceCallOrder ==
  [][(cls = "N9010A" /\ op' = "get_trace")
       => /\ wire' = <<Write(":form:data real,32", <<>>, <<>>), Query(":form:bord?")>>
                       \o (IF dev.bord = s_NORM
                           THEN <<Write(":form:bord swap", <<>>, <<>>)>>
                           ELSE <<>>)
                       \o <<Query(":trace:data? trace1"), Query(":freq:start?"),
                            Query(":freq:stop?")>>
          /\ \A i \in 1..Len(wire') :
               wire'[i].head = ":trace:data? trace1"
                 => DevApply(dev, SubSeq(wire', 1, i - 1)).bord = s_SWAP]_vars

\* a get_trace on an instrument that reported NORM with its line terminator:
\* six calls, the swap third
C28_Witness ==
  /\ cls = "N9010A"
  /\ op = "get_trace"
  /\ Len(wire) = 6
  /\ wire[3] = Write(":form:bord swap", <<>>, <<>>)
  /\ wire[4] = Query(":trace:data? trace1")
  /\ dev.bord = s_SWAP

\* the unit argument of a Santec get_power or set_power call
UnitGiven(o, a) == IF o = "get_power" THEN a.txt ELSE a.unit

\* C29: Santec TSL710.get_power(unit) and set_power(pow, unit) with a unit
\* other than 'mW' and 'dBm' raise ValueError and make no transport call;
\* with one of the two their first call is the ':pow:unit' write of the
\* unit's code, the ':pow?' query or ':pow' write comes after it, and the
\* instrument is in the requested unit when that query or write reaches it
C29_UnitBeforePower ==
  [][(cls = "Santec.TSL710" /\ op' \in {"get_power", "set_power"})
       => LET unit == UnitGiven(op', arg')
              code == IF unit = s_dBm THEN 0 ELSE 1
          IN IF unit \notin {s_mW, s_dBm}
             THEN res'.status = "ValueError" /\ wire' = <<>>
             ELSE /\ wire' # <<>>
                  /\ wire'[1] = Write(":pow:unit ", <<code>>, <<>>)
                  /\ (op' = "get_power" => wire' = <<wire'[1], Query(":pow?")>>)
                  /\ (op' = "set_power" /\ res'.status = "ok"
                        => wire' = <<wire'[1], Write(":pow ", <<arg'.num[1]>>, <<>>)>>)
                  /\ \A i \in 1..Len(wire') :
                       wire'[i].head \in {":pow?", ":pow "}
                         => /\ i > 1
                            /\ DevApply(dev, SubSeq(wire', 1, i - 1)).pow_unit = code]_vars

\* a get_power('dBm') that put the instrument in dBm ahead of its query
C29_Witness ==
  /\ cls = "Santec.TSL710"
  /\ op = "get_power"
  /\ arg.txt = s_dBm
  /\ wire = <<Write(":pow:unit ", <<0>>, <<>>), Query(":pow?")>>
  /\ dev.pow_unit = 0

\* a set_power with the unit 'W', rejected before any transport call
C29_InvalidWitness ==
  /\ cls = "Santec.TSL710"
  /\ op = "set_power"
  /\ arg.unit = s_W
  /\ res.status = "ValueError"
  /\ wire = <<>>

\* a Santec2.TSL710 object whose cached unit is unit
Twin(unit) ==
  [TSL2_710_init(Identity("Santec2.TSL710"), 0).self EXCEPT !.pow_unit = unit]

\* what the Santec2.TSL710 setter of the same parameter does with the
\* argument a of the Santec.TSL710 setter o
TwinOutcome(o, a) ==
  IF o = "set_wavelength" THEN TSL_set_wavelength(Twin(s_mW), a.num[1])
  ELSE IF o = "set_wav_sweep_start" THEN TSL_set_wave_sweep_start(Twin(s_mW), a.num[1])
  ELSE IF o = "set_wav_sweep_stop" THEN TSL_set_wave_sweep_stop(Twin(s_mW), a.num[1])
  ELSE IF o = "set_wave_sweep_speed" THEN TSL_set_wave_sweep_speed(Twin(s_mW), a.num[1])
  ELSE TSL_set_power(Twin(a.unit), a.num[1])

\* the setters of Santec.TSL710 whose parameter Santec2.TSL710 also bounds
SharedSetters ==
  {"set_wavelength", "set_wav_sweep_start", "set_wav_sweep_stop",
   "set_wave_sweep_speed", "set_power"}

\* C30: for wavelength, sweep start, sweep stop, sweep speed, power in mW
\* and power in dBm, Santec.TSL710 accepts a value iff Santec2.TSL710
\* accepts it, and the command the two write for an accepted value is the
\* same
C30_WrappersAgree ==
  (/\ cls = "Santec.TSL710"
   /\ op \in SharedSetters
   /\ op = "set_power" => arg.unit \in {s_mW, s_dBm})
    => LET twin == TwinOutcome(op, arg) IN
       /\ res.status = "ok" <=> twin.res.status = "ok"
       /\ res.status = "ok" => wire[Len(wire)] = twin.wire[Len(twin.wire)]
====
